---- MODULE Spec2Model ----
(***************************************************************************)
(* F1X backend: the dual-window rate limiter, the upstream client with     *)
(* retry, the scheduled refresh jobs, the durable cache store, the HTTP     *)
(* read layer and the dashboard's caching API client.                      *)
(* Times are epoch milliseconds, as Date.now() returns them.               *)
(***************************************************************************)
EXTENDS Integers, Sequences, FiniteSets, TLC

VARIABLES
    now,        \* Date.now()
    limiter,    \* the DualRateLimiter instance
    worker,     \* position of the _processQueue loop
    nextTicket, \* number of acquire() calls made so far
    enqueueLog, \* enqueueLog[k]: the time of the k-th acquire() call
    grantLog,   \* resolved acquire() calls, in resolution order, with the time
    calls,      \* the fetchWithRetry invocations
    store,      \* the f1_cache collection: document id -> document
    lastRun,    \* the latest invocation of a scheduled job, as observed
    runs,       \* number of job invocations so far
    inv,        \* the invocations of the jobs that overlap, at their awaits
    probe,      \* an isSessionInLiveWindow call: its argument and result
    ipHits,     \* the middleware's table: address -> {count, windowStart}
    requests,   \* number of HTTP requests served so far
    http,       \* the latest HTTP request and its answer, as observed
    windowLog,  \* per address: its current window and the requests let through
    wlog,       \* the cacheWrite calls made directly, in order
    client,     \* the dashboard's API client: caches, refreshes, requests
    lastGet,    \* the latest fetchBackend call, as observed
    api         \* the direct-to-upstream client: cache, queue, in-flight table

limVars == <<limiter, worker, nextTicket, enqueueLog, grantLog>>
\* the HTTP read layer and what observes it
readVars == <<ipHits, requests, http, windowLog, wlog>>
\* the dashboard's API client and what observes it
clientVars == <<client, lastGet, api>>
\* what the limiter and the upstream client leave alone
\* the backend's store, jobs and read layer
offNet0 == <<store, lastRun, runs, inv, probe, readVars>>
offNet == <<store, lastRun, runs, inv, probe, readVars, clientVars>>
\* what the scheduled jobs leave alone
offJobs == <<limVars, calls, inv, probe, readVars, clientVars>>
vars == <<now, limiter, worker, nextTicket, enqueueLog, grantLog, calls,
          store, lastRun, runs, inv, probe, ipHits, requests, http, windowLog, wlog,
          client, lastGet, api>>

\* JSON values (and undefined): t is the type, v the items of an array or the
\* one record of an object
JNull == [t |-> "null", v |-> <<>>]
JUndefined == [t |-> "undefined", v |-> <<>>]
Arr(items) == [t |-> "array", v |-> items]
Obj(r) == [t |-> "object", v |-> <<r>>]
\* if (x), !x, x || y
Truthy(j) == j.t \notin {"null", "undefined"}

Min(a, b) == IF a <= b THEN a ELSE b

(***************************************************************************)
(* Bounds                                                                  *)
(***************************************************************************)
\* acquire() calls made on one limiter
MaxAcquires == 3
\* acquire() is called at one of these instants
AcquireTimes == {0, 500, 1000, 60000}
\* the clock advances in these steps
Steps == {500, 1000}
\* a timer fires at most this long after it is due
MaxLateness == 500
\* time the worker needs at most to serve one more request: one minute
\* window, the 2 s poll and its lateness
ServeTime == 60000 + 2000 + MaxLateness
MaxTime == 61000 + (MaxAcquires + 1) * ServeTime
\* constructor arguments of the limiter
Capacities == {[perSecond |-> 1, perMinute |-> 2]}
\* the fetchWithRetry invocations, when they start, and their limiter: its
\* minute bucket is empty at the third attempt
Calls == {1}
CallTimes == {0, 500}
FetchCapacities == {[perSecond |-> 1, perMinute |-> 2]}
\* the upstream answers at most this long after the request was sent
MaxLatency == 1000
\* the four attempts, their backoffs (1 + 3 + 8 + 8 s) and one wait for the
\* minute bucket fit in here
FetchMaxTime == 90000
\* invocations of scheduled jobs
MaxRuns == 1
\* invocations when the four jobs run one after another
MaxPlainRuns == 3
\* HTTP requests served in a run of the read layer
MaxRequests == 1
\* requests counted for one address in one window, for the address that
\* floods and for the others
MaxHits == 62
MaxOtherHits == 1
\* direct cacheWrite calls
MaxWrites == 3
\* fetchBackend calls of the dashboard
MaxGets == 3
\* fetchAPI calls of the dashboard
MaxCalls == 3
\* invocations of each job when the jobs overlap
MaxStarts == 1

(***************************************************************************)
(* DualRateLimiter                                                         *)
(***************************************************************************)
SECOND_MS == 1000
MINUTE_MS == 60000

NewLimiter(cap, t) ==
    [perSecond |-> cap.perSecond, perMinute |-> cap.perMinute,
     secondTokens |-> cap.perSecond, minuteTokens |-> cap.perMinute,
     lastSecondRefill |-> t, lastMinuteRefill |-> t,
     queue |-> <<>>, processing |-> FALSE]

RefillSecondUncapped(l, t) ==
    IF t - l.lastSecondRefill >= SECOND_MS
    THEN [l EXCEPT !.secondTokens =
                     @ + ((t - l.lastSecondRefill) \div SECOND_MS) * l.perSecond,
                   !.lastSecondRefill = t]
    ELSE l

RefillSecond(l, t) ==
    IF t - l.lastSecondRefill >= SECOND_MS
    THEN [l EXCEPT !.secondTokens =
                     Min(l.perSecond,
                         @ + ((t - l.lastSecondRefill) \div SECOND_MS) * l.perSecond),
                   !.lastSecondRefill = t]
    ELSE l

RefillMinute(l, t) ==
    IF t - l.lastMinuteRefill >= MINUTE_MS
    THEN [l EXCEPT !.minuteTokens =
                     Min(l.perMinute,
                         @ + ((t - l.lastMinuteRefill) \div MINUTE_MS) * l.perMinute),
                   !.lastMinuteRefill = t]
    ELSE l

RefillCoupled(l, t) ==
    IF t - l.lastSecondRefill >= SECOND_MS
    THEN [RefillSecond(l, t) EXCEPT !.minuteTokens = l.perMinute,
                                    !.lastMinuteRefill = t]
    ELSE l

Refill(l, t) == RefillMinute(RefillSecond(l, t), t)

CanGrant(l) == l.secondTokens > 0 /\ l.minuteTokens > 0

\* this.queue.shift(): the head of the queue and what is left of it
PopQueue(q) == [head |-> q[Len(q)], rest |-> SubSeq(q, 1, Len(q) - 1)]
ShiftQueue(q) == [head |-> Head(q), rest |-> Tail(q)]

\* this.secondTokens--; this.minuteTokens--; const resolve = this.queue.shift()
TakeTokens(l) ==
    [l EXCEPT !.secondTokens = @ - 1, !.minuteTokens = @ - 1,
              !.queue = ShiftQueue(@).rest]

WaitMs(l) == IF l.secondTokens <= 0 THEN 1000 ELSE 2000

\* after the while loop: this.processing = false
EndLoopKeepsFlag(l) == l
EndLoop(l) == [l EXCEPT !.processing = FALSE]

\* worker.pc: "idle" no loop is running; "loop" at the while test;
\* "refilled" after _refill(); "sleeping" in the await of the else branch
Running == worker.pc \in {"loop", "refilled"}

Granted(k) == \E i \in DOMAIN grantLog : grantLog[i].ticket = k

\* a continuation of a resolved acquire() is waiting in the microtask queue
Resumable(c) == calls[c].pc = "waiting" /\ Granted(calls[c].ticket)

\* synchronous code or microtasks are still to run: no timer callback, no
\* I/O callback and no new task starts before they are done
Busy == Running \/ \E c \in DOMAIN calls : Resumable(c)

\* _processQueue() up to the while test: if (this.processing) return;
\* this.processing = true. worker.loops counts the loops that are active
ProcessQueueUnguarded(l, w) ==
    [limiter |-> [l EXCEPT !.processing = TRUE],
     worker |-> [pc |-> "loop", wakeAt |-> 0, loops |-> w.loops + 1]]

ProcessQueue(l, w) ==
    IF l.processing THEN [limiter |-> l, worker |-> w]
    ELSE [limiter |-> [l EXCEPT !.processing = TRUE],
          worker |-> [pc |-> "loop", wakeAt |-> 0, loops |-> w.loops + 1]]

\* queue.push(resolve); this._processQueue() up to its first statement
Enqueue(ticket) ==
    LET pushed == [limiter EXCEPT !.queue = Append(@, ticket)]
        entered == ProcessQueue(pushed, worker)
    IN /\ limiter' = entered.limiter
       /\ worker' = entered.worker

Acquire ==
    /\ ~Busy
    /\ nextTicket < MaxAcquires
    /\ now \in AcquireTimes
    /\ Enqueue(nextTicket + 1)
    /\ nextTicket' = nextTicket + 1
    /\ enqueueLog' = Append(enqueueLog, now)
    /\ UNCHANGED <<now, grantLog, calls, offNet>>

\* while (this.queue.length > 0) { this._refill();
WorkerRefill ==
    /\ worker.pc = "loop"
    /\ Len(limiter.queue) > 0
    /\ limiter' = Refill(limiter, now)
    /\ worker' = [worker EXCEPT !.pc = "refilled"]
    /\ UNCHANGED <<now, nextTicket, enqueueLog, grantLog, calls, offNet>>

\* the loop ends: this.processing = false
WorkerExit ==
    /\ worker.pc = "loop"
    /\ Len(limiter.queue) = 0
    /\ limiter' = EndLoop(limiter)
    /\ worker' = [worker EXCEPT !.pc = "idle", !.loops = @ - 1]
    /\ UNCHANGED <<now, nextTicket, enqueueLog, grantLog, calls, offNet>>

WorkerGrant ==
    /\ worker.pc = "refilled"
    /\ CanGrant(limiter)
    /\ limiter' = TakeTokens(limiter)
    /\ grantLog' = Append(grantLog, [ticket |-> ShiftQueue(limiter.queue).head, at |-> now])
    /\ worker' = [worker EXCEPT !.pc = "loop"]
    /\ UNCHANGED <<now, nextTicket, enqueueLog, calls, offNet>>

WorkerSleep ==
    /\ worker.pc = "refilled"
    /\ ~CanGrant(limiter)
    /\ worker' = [worker EXCEPT !.pc = "sleeping",
                                !.wakeAt = now + WaitMs(limiter)]
    /\ UNCHANGED <<now, limiter, nextTicket, enqueueLog, grantLog, calls, offNet>>

\* the setTimeout callback resolves the awaited promise
WorkerWake ==
    /\ ~Busy
    /\ worker.pc = "sleeping"
    /\ now >= worker.wakeAt
    /\ worker' = [worker EXCEPT !.pc = "loop"]
    /\ UNCHANGED <<now, limiter, nextTicket, enqueueLog, grantLog, calls, offNet>>

\* the clock advances by d; no pending timer is overdue by more than
\* MaxLateness
Advance(d, limit) ==
    /\ ~Busy
    /\ now + d <= limit
    /\ worker.pc = "sleeping" => now + d <= worker.wakeAt + MaxLateness
    /\ \A c \in Calls :
          /\ calls[c].pc = "backoff" => now + d <= calls[c].wakeAt + MaxLateness
          /\ calls[c].pc = "fetching" => now + d <= calls[c].sentAt + MaxLatency
    /\ now' = now + d

\* the clock is followed while a call is queued or can still arrive
Tick(d) ==
    /\ Advance(d, MaxTime)
    /\ worker.pc # "idle" \/ \E t \in AcquireTimes : now < t
    /\ UNCHANGED <<limVars, calls, offNet>>

LimiterInit(caps, t) ==
    /\ now = t
    /\ \E cap \in caps : limiter = NewLimiter(cap, t)
    /\ worker = [pc |-> "idle", wakeAt |-> 0, loops |-> 0]
    /\ nextTicket = 0
    /\ enqueueLog = <<>>
    /\ grantLog = <<>>

(***************************************************************************)
(* fetchWithRetry                                                          *)
(***************************************************************************)
MAX_RETRIES == 3
RETRY_BACKOFF_MS == <<1000, 3000, 8000>>

\* what the upstream does with one request: status 0 is a transport failure
\* (fetch() rejects); response.ok is status 200..299
Ok(body) == [status |-> 200, body |-> body]
Fail(status) == [status |-> status, body |-> JNull]
Responses == {Ok(Arr(<<>>)), Fail(429), Fail(500), Fail(0)}

\* RETRY_BACKOFF_MS[attempt] || fallback
BackoffOr(attempt, fallback) ==
    IF attempt + 1 \in DOMAIN RETRY_BACKOFF_MS /\ RETRY_BACKOFF_MS[attempt + 1] # 0
    THEN RETRY_BACKOFF_MS[attempt + 1]
    ELSE fallback

\* the try/catch of one loop iteration, from the response on
OnResponse(attempt, r) ==
    IF r.status >= 200 /\ r.status <= 299
    THEN [do |-> "return", value |-> r.body, ms |-> 0]
    ELSE IF r.status = 429
    THEN [do |-> "sleep", value |-> JNull, ms |-> BackoffOr(attempt, 8000)]
    ELSE IF attempt = MAX_RETRIES
    THEN [do |-> "throw", value |-> JNull, ms |-> 0]
    ELSE [do |-> "sleep", value |-> JNull, ms |-> BackoffOr(attempt, 2000)]

\* for (let attempt = 0; attempt <= MAX_RETRIES; attempt++)
LoopTestExclusive(attempt) == attempt < MAX_RETRIES
LoopTest(attempt) == attempt <= MAX_RETRIES

NewCall ==
    [pc |-> "idle", attempt |-> 0, ticket |-> 0, wakeAt |-> 0, sentAt |-> 0,
     sent |-> 0, waits |-> <<>>, statuses |-> {},
     result |-> JNull]

\* fetchWithRetry(url, limiter) up to the first await limiter.acquire()
FetchCall(c) ==
    /\ ~Busy
    /\ calls[c].pc = "idle"
    /\ now \in CallTimes
    /\ Enqueue(nextTicket + 1)
    /\ nextTicket' = nextTicket + 1
    /\ enqueueLog' = Append(enqueueLog, now)
    /\ calls' = [calls EXCEPT ![c].pc = "waiting", ![c].ticket = nextTicket + 1]
    /\ UNCHANGED <<now, grantLog, offNet>>

\* the acquire() promise was resolved: const response = await fetch(url)
FetchSend(c) ==
    /\ ~Running
    /\ Resumable(c)
    /\ calls' = [calls EXCEPT ![c].pc = "fetching", ![c].sent = @ + 1,
                              ![c].sentAt = now]
    /\ UNCHANGED <<now, limVars, offNet>>

\* the upstream answers r
FetchRespond(c, r) ==
    /\ ~Busy
    /\ calls[c].pc = "fetching"
    /\ LET o == OnResponse(calls[c].attempt, r)
           seen == [calls EXCEPT ![c].statuses = @ \cup {r.status}]
       IN calls' =
            IF o.do = "return"
            THEN [seen EXCEPT ![c].pc = "returned", ![c].result = o.value]
            ELSE IF o.do = "throw"
            THEN [seen EXCEPT ![c].pc = "threw"]
            ELSE [seen EXCEPT ![c].pc = "backoff", ![c].wakeAt = now + o.ms,
                              ![c].waits = Append(@, o.ms)]
    /\ UNCHANGED <<now, limVars, offNet>>

\* the backoff timer fired: attempt++, then the loop test
FetchRetry(c) ==
    /\ ~Busy
    /\ calls[c].pc = "backoff"
    /\ now >= calls[c].wakeAt
    /\ IF LoopTest(calls[c].attempt + 1)
       THEN /\ Enqueue(nextTicket + 1)
            /\ nextTicket' = nextTicket + 1
            /\ enqueueLog' = Append(enqueueLog, now)
            /\ calls' = [calls EXCEPT ![c].pc = "waiting", ![c].attempt = @ + 1,
                                      ![c].ticket = nextTicket + 1]
       ELSE /\ calls' = [calls EXCEPT ![c].pc = "returned", ![c].attempt = @ + 1,
                                      ![c].result = JUndefined]
            /\ UNCHANGED <<limiter, worker, nextTicket, enqueueLog>>
    /\ UNCHANGED <<now, grantLog, offNet>>

FetchTick(d) ==
    /\ Advance(d, FetchMaxTime)
    /\ UNCHANGED <<limVars, calls, offNet>>

CallsInit == calls = [c \in Calls |-> NewCall]

(***************************************************************************)
(* isSessionInLiveWindow                                                   *)
(***************************************************************************)
SwappedGracePeriod ==
    [beforeStart |-> 60 * 60 * 1000, afterEnd |-> 30 * 60 * 1000]
SESSION_GRACE_PERIOD ==
    [beforeStart |-> 30 * 60 * 1000, afterEnd |-> 60 * 60 * 1000]

\* date fields as the upstream sends them: an ISO timestamp (ms is its
\* instant), no field at all, the empty string, or text Date cannot parse
Iso(ms) == [kind |-> "iso", ms |-> ms]
NoDate == [kind |-> "missing", ms |-> 0]
EmptyDate == [kind |-> "empty", ms |-> 0]
BadDate == [kind |-> "invalid", ms |-> 0]

\* !session.date_start
DateFalsy(d) == d.kind \in {"missing", "empty"}

\* new Date(d).getTime(): NaN unless the text parses
GetTime(d) ==
    IF d.kind = "iso" THEN [nan |-> FALSE, ms |-> d.ms]
    ELSE [nan |-> TRUE, ms |-> 0]

\* x + n, t >= x and t <= x where x may be NaN
NumAdd(x, n) == IF x.nan THEN x ELSE [x EXCEPT !.ms = @ + n]
Geq(t, x) == ~x.nan /\ t >= x.ms
LeqStrict(t, x) == ~x.nan /\ t < x.ms
Leq(t, x) == ~x.nan /\ t <= x.ms

IsSessionInLiveWindow(session, t) ==
    IF ~Truthy(session) THEN FALSE
    ELSE IF DateFalsy(session.v[1].date_start) \/ DateFalsy(session.v[1].date_end)
    THEN FALSE
    ELSE LET start == GetTime(session.v[1].date_start)
             end == GetTime(session.v[1].date_end)
             windowStart == NumAdd(start, 0 - SESSION_GRACE_PERIOD.beforeStart)
             windowEnd == NumAdd(end, SESSION_GRACE_PERIOD.afterEnd)
         IN Geq(t, windowStart) /\ Leq(t, windowEnd)

\* the sessions the upstream reports and the instants the clock is read at:
\* the window of the first session is [200000, 9200000]
SessionAt(start, end) == [session_key |-> 1, date_start |-> start, date_end |-> end]
ProbeSessions ==
    {JNull,
     Obj(SessionAt(Iso(2000000), Iso(5600000))),
     Obj(SessionAt(Iso(2000000), Iso(2000000))),
     Obj(SessionAt(NoDate, Iso(5600000))),
     Obj(SessionAt(Iso(2000000), NoDate)),
     Obj(SessionAt(EmptyDate, Iso(5600000))),
     Obj(SessionAt(BadDate, Iso(5600000))),
     Obj(SessionAt(Iso(2000000), BadDate))}
WindowInstants ==
    {0, 199999, 200000, 200001, 1000000, 2000000, 5599999, 5600000, 5600001,
     5661000, 9199999, 9200000, 9200001}

NoProbe == [asked |-> FALSE, session |-> JNull, at |-> 0, result |-> FALSE]

CheckWindow(session) ==
    /\ probe' = [asked |-> TRUE, session |-> session, at |-> now,
                 result |-> IsSessionInLiveWindow(session, now)]
    /\ UNCHANGED <<now, limVars, calls, store, lastRun, runs, inv, readVars,
                   clientVars>>

WindowTick(t) ==
    /\ t > now
    /\ now' = t
    /\ UNCHANGED <<limVars, calls, offNet>>

(***************************************************************************)
(* The cache store and the scheduled jobs                                  *)
(***************************************************************************)
\* new Date().getFullYear(); the clock counts from 1 January 2026
YearOf(t) == 2026 + (t \div 86400000) \div 365

MeetingsKeyShared(year) == "latest_session"
MeetingsKey(year) == "meetings_" \o ToString(year)
SessionsKey(meetingKey) == "sessions_" \o ToString(meetingKey)
DriverStandingsKey(year) == "driver_standings_" \o ToString(year)
ConstructorStandingsKey(year) == "constructor_standings_" \o ToString(year)
LatestSessionKey == "latest_session"
DriversLatestKey == "drivers_latest"
LiveKeyPerDriver(resource, sessionKey) ==
    IF resource = "laps" THEN "laps_" \o ToString(sessionKey) \o "_44"
    ELSE resource \o "_" \o ToString(sessionKey)
LiveKey(resource, sessionKey) ==
    IF resource = "laps" THEN "laps_" \o ToString(sessionKey) \o "_all"
    ELSE resource \o "_" \o ToString(sessionKey)

\* the seven live resources in the order refreshLiveData lists them, and the
\* upstream endpoint of each
LiveResources ==
    <<"positions", "intervals", "stints", "weather", "race_control",
      "drivers", "laps">>
Endpoint(resource) ==
    IF resource = "positions" THEN "/position" ELSE "/" \o resource

MeetingKeys == {1, 2}
SessionKeys == {1}
Keys ==
    {MeetingsKey(2026), DriverStandingsKey(2026), ConstructorStandingsKey(2026),
     LatestSessionKey, DriversLatestKey}
    \cup {SessionsKey(m) : m \in MeetingKeys}
    \cup {LiveKey(LiveResources[i], k) : i \in DOMAIN LiveResources, k \in SessionKeys}

Absent == [exists |-> FALSE, data |-> JNull, updatedAt |-> 0]
Doc(data, t) == [exists |-> TRUE, data |-> data, updatedAt |-> t]

\* an invocation in progress: the store, whether the statement just executed
\* threw, and what the invocation did so far (failed: the documents whose
\* write was rejected)
NewRun(st) ==
    [store |-> st, threw |-> FALSE, errors |-> 0, written |-> <<>>,
     fetched |-> {}, undelivered |-> {}, failed |-> {}, latest |-> JNull,
     meetings |-> JNull]

\* throw / rethrow, and a catch block that only logs
Throw(ctx) == [ctx EXCEPT !.threw = TRUE, !.errors = @ + 1]
Caught(ctx) == [ctx EXCEPT !.threw = FALSE]
\* the try { ... } catch (error) { console.error(...) } around each job body
NoTopLevelCatch(ctx) == ctx
TopLevelCatch(ctx) == [ctx EXCEPT !.threw = FALSE]

CacheWriteCreateOnly(ctx, docId, data, t, wfail) ==
    IF data.t = "undefined" \/ docId \in wfail
    THEN Throw([ctx EXCEPT !.failed = @ \cup {docId}])
    ELSE IF ctx.store[docId].exists
    THEN [ctx EXCEPT !.written = Append(@, docId), !.threw = FALSE]
    ELSE [ctx EXCEPT !.store[docId] = Doc(data, t),
                     !.written = Append(@, docId),
                     !.threw = FALSE]

\* cacheWrite(docId, data): Firestore rejects a document with an undefined
\* field; wfail are the documents whose write fails
CacheWrite(ctx, docId, data, t, wfail) ==
    IF data.t = "undefined" \/ docId \in wfail
    THEN Throw([ctx EXCEPT !.failed = @ \cup {docId}])
    ELSE [ctx EXCEPT !.store[docId] = Doc(data, t),
                     !.written = Append(@, docId),
                     !.threw = FALSE]

\* Promise.all over cacheWrite calls: every write is issued, the await throws
\* when one of them failed
RECURSIVE WriteAll(_, _, _, _)
WriteAll(ctx, writes, t, wfail) ==
    IF writes = <<>> THEN ctx
    ELSE LET w == CacheWrite(ctx, Head(writes).docId, Head(writes).data, t, wfail)
             rest == WriteAll(w, Tail(writes), t, wfail)
         IN [rest EXCEPT !.threw = w.threw \/ rest.threw]

\* fetchWithRetry against an upstream that answers script[1], script[2], ...
RECURSIVE RunLoop(_, _)
RunLoop(attempt, script) ==
    IF ~LoopTest(attempt) THEN [kind |-> "return", value |-> JUndefined]
    ELSE LET o == OnResponse(attempt, script[attempt + 1])
         IN IF o.do = "return" THEN [kind |-> "return", value |-> o.value]
            ELSE IF o.do = "throw" THEN [kind |-> "throw", value |-> JNull]
            ELSE RunLoop(attempt + 1, script)

FetchWithRetry(script) == RunLoop(0, script)

\* the call delivered a payload
Delivered(f) == f.kind = "return" /\ f.value.t # "undefined"

\* the invocation fetched endpoint; keys are the documents of that resource
Fetched(ctx, endpoint, f, keys) ==
    [ctx EXCEPT !.fetched = @ \cup {endpoint},
                !.undelivered = IF Delivered(f) THEN @ ELSE @ \cup keys]

\* data?.MRData?.StandingsTable?.StandingsLists?.[0]?.DriverStandings || []
\* (the payload is modelled by its StandingsLists, a list by its standings)
Standings(data) ==
    IF data.t = "object"
    THEN IF Len(data.v[1].StandingsLists) > 0
         THEN Arr(data.v[1].StandingsLists[1])
         ELSE Arr(<<>>)
    ELSE Arr(<<>>)

FetchStandings(script) ==
    LET f == FetchWithRetry(script)
    IN IF f.kind = "throw" THEN f
       ELSE [kind |-> "return", value |-> Standings(f.value)]

\* for (const meeting of data) { try { ... } catch (e) { console.warn(...) } }
RECURSIVE MeetingsLoop(_, _, _, _, _)
MeetingsLoop(ctx, meetings, t, sessionScripts, wfail) ==
    IF meetings = <<>> THEN ctx
    ELSE LET key == SessionsKey(Head(meetings).meeting_key)
             f == FetchWithRetry(sessionScripts[Head(meetings).meeting_key])
             c1 == Fetched(ctx, "/sessions", f, {key})
             c2 == IF f.kind = "throw" THEN Caught(c1)
                   ELSE Caught(CacheWrite(c1, key, f.value, t, wfail))
         IN MeetingsLoop(c2, Tail(meetings), t, sessionScripts, wfail)

RefreshMeetings(st, t, script, sessionScripts, wfail) ==
    LET year == YearOf(t)
        f == FetchWithRetry(script)
        c1 == [Fetched(NewRun(st), "/meetings", f, {MeetingsKey(year)})
                 EXCEPT !.meetings = f.value]
        c2 == CacheWrite(c1, MeetingsKey(year), f.value, t, wfail)
    IN TopLevelCatch(
         IF f.kind = "throw" THEN Throw(c1)
         ELSE IF c2.threw THEN c2
         ELSE IF f.value.t # "array" THEN Throw(c2)
         ELSE MeetingsLoop(c2, f.value.v, t, sessionScripts, wfail))

RefreshStandings(st, t, driverScript, constructorScript, wfail) ==
    LET year == YearOf(t)
        fd == FetchStandings(driverScript)
        fc == FetchStandings(constructorScript)
        c1 == Fetched(NewRun(st), "/driverstandings.json",
                      FetchWithRetry(driverScript), {DriverStandingsKey(year)})
        c2 == Fetched(c1, "/constructorstandings.json",
                      FetchWithRetry(constructorScript),
                      {ConstructorStandingsKey(year)})
    IN TopLevelCatch(
         IF fd.kind = "throw" \/ fc.kind = "throw" THEN Throw(c2)
         ELSE WriteAll(c2,
                       <<[docId |-> DriverStandingsKey(year), data |-> fd.value],
                         [docId |-> ConstructorStandingsKey(year), data |-> fc.value]>>,
                       t, wfail))

\* sessions && sessions.length > 0 ? sessions[0] : null
LatestOf(sessions) ==
    IF sessions.t = "array"
    THEN IF Len(sessions.v) > 0 THEN Obj(sessions.v[1]) ELSE JNull
    ELSE JNull

\* upstream.fetchX(sessionKey).catch((e) => { ...; return null; })
CatchNull(f) == IF f.kind = "throw" THEN JNull ELSE f.value

\* the writes.push(...) statements, in order, from resource i on
RECURSIVE LiveWritesUntilNull(_, _, _)
LiveWritesUntilNull(i, results, sessionKey) ==
    IF i > Len(LiveResources) THEN <<>>
    ELSE IF ~Truthy(results[LiveResources[i]]) THEN <<>>
    ELSE <<[docId |-> LiveKey(LiveResources[i], sessionKey),
            data |-> results[LiveResources[i]]]>>
         \o LiveWritesUntilNull(i + 1, results, sessionKey)

RECURSIVE LiveWrites(_, _, _)
LiveWrites(i, results, sessionKey) ==
    IF i > Len(LiveResources) THEN <<>>
    ELSE LET r == LiveResources[i]
             mine == IF ~Truthy(results[r]) THEN <<>>
                     ELSE IF r = "drivers"
                     THEN <<[docId |-> LiveKey(r, sessionKey), data |-> results[r]],
                            [docId |-> DriversLatestKey, data |-> results[r]]>>
                     ELSE <<[docId |-> LiveKey(r, sessionKey), data |-> results[r]]>>
         IN mine \o LiveWrites(i + 1, results, sessionKey)

\* the Promise.all over the seven fetches
RECURSIVE LiveFetches(_, _, _, _)
LiveFetches(ctx, i, liveScripts, sessionKey) ==
    IF i > Len(LiveResources) THEN ctx
    ELSE LET r == LiveResources[i]
             keys == IF r = "drivers"
                     THEN {LiveKey(r, sessionKey), DriversLatestKey}
                     ELSE {LiveKey(r, sessionKey)}
         IN LiveFetches(Fetched(ctx, Endpoint(r), FetchWithRetry(liveScripts[r]), keys),
                        i + 1, liveScripts, sessionKey)

RefreshLiveDataUnchecked(st, t, script, liveScripts, wfail) ==
    LET f == FetchWithRetry(script)
        latestSession == LatestOf(f.value)
        c1 == [Fetched(NewRun(st), "/sessions", f, {LatestSessionKey})
                 EXCEPT !.latest = latestSession]
        c2 == CacheWrite(c1, LatestSessionKey, latestSession, t, wfail)
        sessionKey == latestSession.v[1].session_key
        results == [r \in {LiveResources[i] : i \in DOMAIN LiveResources} |->
                      CatchNull(FetchWithRetry(liveScripts[r]))]
    IN TopLevelCatch(
         IF f.kind = "throw" THEN Throw(c1)
         ELSE IF c2.threw THEN c2
         ELSE IF ~Truthy(latestSession) THEN c2
         ELSE WriteAll(LiveFetches(c2, 1, liveScripts, sessionKey),
                       LiveWrites(1, results, sessionKey), t, wfail))

RefreshLiveData(st, t, script, liveScripts, wfail) ==
    LET f == FetchWithRetry(script)
        latestSession == LatestOf(f.value)
        c1 == [Fetched(NewRun(st), "/sessions", f, {LatestSessionKey})
                 EXCEPT !.latest = latestSession]
        c2 == CacheWrite(c1, LatestSessionKey, latestSession, t, wfail)
        sessionKey == latestSession.v[1].session_key
        results == [r \in {LiveResources[i] : i \in DOMAIN LiveResources} |->
                      CatchNull(FetchWithRetry(liveScripts[r]))]
    IN TopLevelCatch(
         IF f.kind = "throw" THEN Throw(c1)
         ELSE IF c2.threw THEN c2
         ELSE IF ~Truthy(latestSession) THEN c2
         ELSE IF ~IsSessionInLiveWindow(latestSession, t) THEN c2
         ELSE WriteAll(LiveFetches(c2, 1, liveScripts, sessionKey),
                       LiveWrites(1, results, sessionKey), t, wfail))

RefreshBaseDataNoAlias(st, t, script, driversScript, wfail) ==
    LET f == FetchWithRetry(script)
        latestSession == LatestOf(f.value)
        c1 == [Fetched(NewRun(st), "/sessions", f, {LatestSessionKey})
                 EXCEPT !.latest = latestSession]
        c2 == CacheWrite(c1, LatestSessionKey, latestSession, t, wfail)
        sessionKey == latestSession.v[1].session_key
        fdr == FetchWithRetry(driversScript)
        c3 == Fetched(c2, "/drivers", fdr,
                      {LiveKey("drivers", sessionKey), DriversLatestKey})
        c4 == CacheWrite(c3, LiveKey("drivers", sessionKey), fdr.value, t, wfail)
    IN TopLevelCatch(
         IF f.kind = "throw" THEN Throw(c1)
         ELSE IF c2.threw THEN c2
         ELSE IF ~Truthy(latestSession) THEN c2
         ELSE IF fdr.kind = "throw" THEN Caught(c3)
         ELSE IF ~Truthy(fdr.value) THEN c3
         ELSE Caught(c4))

RefreshBaseData(st, t, script, driversScript, wfail) ==
    LET f == FetchWithRetry(script)
        latestSession == LatestOf(f.value)
        c1 == [Fetched(NewRun(st), "/sessions", f, {LatestSessionKey})
                 EXCEPT !.latest = latestSession]
        c2 == CacheWrite(c1, LatestSessionKey, latestSession, t, wfail)
        sessionKey == latestSession.v[1].session_key
        fdr == FetchWithRetry(driversScript)
        c3 == Fetched(c2, "/drivers", fdr,
                      {LiveKey("drivers", sessionKey), DriversLatestKey})
        c4 == CacheWrite(c3, LiveKey("drivers", sessionKey), fdr.value, t, wfail)
        c5 == CacheWrite(c4, DriversLatestKey, fdr.value, t, wfail)
    IN TopLevelCatch(
         IF f.kind = "throw" THEN Throw(c1)
         ELSE IF c2.threw THEN c2
         ELSE IF ~Truthy(latestSession) THEN c2
         ELSE IF fdr.kind = "throw" THEN Caught(c3)
         ELSE IF ~Truthy(fdr.value) THEN c3
         ELSE IF c4.threw THEN Caught(c4)
         ELSE Caught(c5))

\* --- what the upstream and the store do during an invocation -------------
\* the upstream answers at once, is busy throughout, is down throughout, or
\* recovers at the last attempt
Attempts == 1..(MAX_RETRIES + 1)
FailingScripts ==
    {[i \in Attempts |-> Fail(429)],
     [i \in Attempts |-> IF i % 2 = 1 THEN Fail(500) ELSE Fail(0)]}
PlainScripts(body) == {[i \in Attempts |-> Ok(body)]} \cup FailingScripts
Scripts(body) ==
    PlainScripts(body) \cup {<<Fail(429), Fail(0), Fail(500), Ok(body)>>}

MeetingsPayloads == {Arr(<<>>), Arr(<<[meeting_key |-> 1], [meeting_key |-> 2]>>)}
SessionsPayload == Arr(<<SessionAt(Iso(2000000), Iso(5600000))>>)
LatestPayloads ==
    {Arr(<<>>), SessionsPayload, Arr(<<SessionAt(Iso(2000000), NoDate)>>)}
StandingsPayloads ==
    {Obj([StandingsLists |-> <<>>]),
     Obj([StandingsLists |-> << <<[position |-> 1]>> >>])}
LivePayload == Arr(<<[sample |-> 1]>>)

\* the live fetches that fail in one invocation: none, the first listed, the
\* one written under two keys, or all (the loop treats every resource alike)
LiveSet == {LiveResources[i] : i \in DOMAIN LiveResources}
LiveFailSets == {{}, {LiveResources[1]}, {"drivers"}, LiveSet}
LiveScripts ==
    {[r \in LiveSet |-> IF r \in S THEN bad
                        ELSE [i \in Attempts |-> Ok(LivePayload)]] :
        S \in LiveFailSets, bad \in FailingScripts}

\* the writes that fail in one invocation: none, or those of one of the
\* documents the job writes
WriteFailSets(keys) == {{}} \cup {{k} : k \in Keys \cap keys}

\* the answers to the fetch of a resource whose payload is one of bodies
ScriptsOf(bodies) == UNION {Scripts(body) : body \in bodies}
PlainScriptsOf(bodies) == UNION {PlainScripts(body) : body \in bodies}

JobInstants == {1000000, 5661000, 9200001}

EmptyStore == [k \in Keys |-> Absent]
\* a store that earlier invocations have filled
SeededStore ==
    [k \in Keys |->
        IF k = LatestSessionKey
        THEN Doc(Obj(SessionAt(Iso(2000000), Iso(5600000))), 0)
        ELSE Doc(Arr(<<[stale |-> 1]>>), 0)]

NoRun ==
    [job |-> "none", at |-> 0, before |-> EmptyStore, threw |-> FALSE,
     errors |-> 0, written |-> <<>>, fetched |-> {}, undelivered |-> {},
     failed |-> {}, latest |-> JNull, meetings |-> JNull,
     writers |-> [k \in Keys |-> {}]]

\* one invocation of a job by the scheduler, r being what it did; writers
\* are the jobs that have written each document so far
Invoked(job, r) ==
    /\ runs' = runs + 1
    /\ store' = r.store
    /\ lastRun' = [job |-> job, at |-> now, before |-> store,
                   threw |-> r.threw, errors |-> r.errors,
                   written |-> r.written, fetched |-> r.fetched,
                   undelivered |-> r.undelivered, failed |-> r.failed,
                   latest |-> r.latest,
                   meetings |-> r.meetings,
                   writers |->
                     [k \in Keys |->
                        IF \E i \in DOMAIN r.written : r.written[i] = k
                        THEN lastRun.writers[k] \cup {job}
                        ELSE lastRun.writers[k]]]
    /\ UNCHANGED <<now, offJobs>>

Invoke(job, r) == runs < MaxRuns /\ Invoked(job, r)

RunRefreshMeetings ==
    \E script \in ScriptsOf(MeetingsPayloads),
       sessionScripts \in [MeetingKeys -> PlainScripts(SessionsPayload)],
       wfail \in WriteFailSets({MeetingsKey(YearOf(now))}
                               \cup {SessionsKey(m) : m \in MeetingKeys}) :
        Invoke("refreshMeetings",
               RefreshMeetings(store, now, script, sessionScripts, wfail))

\* refreshMeetings run once next to the read layer: the upstream answers at
\* once or is busy throughout, and the write of the meetings may fail
RunRefreshMeetingsOnce ==
    \E script \in {[i \in Attempts |-> Ok(body)] : body \in MeetingsPayloads}
                   \cup {[i \in Attempts |-> Fail(429)]},
       wfail \in {{}, {MeetingsKey(YearOf(now))}} :
        /\ runs = 0
        /\ Invoke("refreshMeetings",
                  RefreshMeetings(store, now, script,
                                  [m \in MeetingKeys |->
                                      [i \in Attempts |-> Ok(SessionsPayload)]],
                                  wfail))

RunRefreshStandings ==
    \E ds \in ScriptsOf(StandingsPayloads), cs \in PlainScriptsOf(StandingsPayloads),
       wfail \in WriteFailSets({DriverStandingsKey(YearOf(now)),
                                ConstructorStandingsKey(YearOf(now))}) :
        Invoke("refreshStandings", RefreshStandings(store, now, ds, cs, wfail))

RunRefreshLiveData ==
    \E script \in PlainScriptsOf(LatestPayloads), liveScripts \in LiveScripts,
       wfail \in WriteFailSets(
                  {LatestSessionKey, DriversLatestKey}
                  \cup {LiveKey(r, k) : r \in {LiveResources[1], "drivers"},
                                        k \in SessionKeys}) :
        Invoke("refreshLiveData",
               RefreshLiveData(store, now, script, liveScripts, wfail))

\* refreshLiveData invoked once during a session, any of the seven fetches
\* failing and the write of the first resource failing or not
AnyLiveScripts ==
    {[r \in LiveSet |-> IF r \in S THEN bad
                        ELSE [i \in Attempts |-> Ok(LivePayload)]] :
        S \in SUBSET LiveSet, bad \in FailingScripts}
RunRefreshLiveDataAnySubset ==
    \E liveScripts \in AnyLiveScripts,
       wfail \in {{}} \cup {{LiveKey(LiveResources[1], k)} : k \in SessionKeys} :
        /\ runs = 0
        /\ Invoke("refreshLiveData",
                  RefreshLiveData(store, now,
                                  [i \in Attempts |-> Ok(SessionsPayload)],
                                  liveScripts, wfail))

\* the four jobs one after another, the upstream answering every request at
\* once or failing every request, the store accepting every write
Upstream(up, body) ==
    IF up THEN [i \in Attempts |-> Ok(body)] ELSE [i \in Attempts |-> Fail(500)]
RunPlain(job, up) ==
    /\ runs < MaxPlainRuns
    /\ Invoked(job,
         IF job = "refreshMeetings"
         THEN RefreshMeetings(store, now,
                              Upstream(up, Arr(<<[meeting_key |-> 1],
                                                 [meeting_key |-> 2]>>)),
                              [mk \in MeetingKeys |-> Upstream(up, SessionsPayload)],
                              {})
         ELSE IF job = "refreshStandings"
         THEN RefreshStandings(store, now,
                               Upstream(up, Obj([StandingsLists |-> <<>>])),
                               Upstream(up, Obj([StandingsLists |-> <<>>])), {})
         ELSE IF job = "refreshLiveData"
         THEN RefreshLiveData(store, now, Upstream(up, SessionsPayload),
                              [r \in LiveSet |-> Upstream(up, LivePayload)], {})
         ELSE RefreshBaseData(store, now, Upstream(up, SessionsPayload),
                              Upstream(up, LivePayload), {}))

RunRefreshBaseData ==
    \E script \in ScriptsOf(LatestPayloads), driversScript \in PlainScripts(LivePayload),
       wfail \in WriteFailSets(
                  {LatestSessionKey, DriversLatestKey}
                  \cup {LiveKey("drivers", k) : k \in SessionKeys}) :
        Invoke("refreshBaseData",
               RefreshBaseData(store, now, script, driversScript, wfail))

JobTick(t) ==
    /\ t > now
    /\ now' = t
    /\ UNCHANGED <<limVars, calls, offNet>>

(***************************************************************************)
(* The HTTP read layer: middleware, readCache and the endpoints            *)
(***************************************************************************)
IP_RATE_LIMIT == [maxRequests |-> 60, windowMs |-> 60 * 1000]
CLEANUP_INTERVAL_MS == 5 * 60 * 1000

\* a query parameter: not given, or given with a text (possibly empty)
QAbsent == [given |-> FALSE, text |-> ""]
QText(s) == [given |-> TRUE, text |-> s]
\* the parameter is falsy: req.query.x || ..., x ? ... : null
QFalsy(q) == ~q.given \/ q.text = ""

NoQuery ==
    [year |-> QAbsent, meeting_key |-> QAbsent, session_key |-> QAbsent,
     driver_number |-> QAbsent]

\* req.headers["x-forwarded-for"]?.split(",")[0]?.trim() || req.ip || "unknown"
\* (xff is the header split at its commas, each item trimmed; <<>> when the
\* header is not sent, and ip is "" when the platform gives none)
ClientIp(req) ==
    IF Len(req.xff) > 0 /\ req.xff[1] # "" THEN req.xff[1]
    ELSE IF req.ip # "" THEN req.ip
    ELSE "unknown"

Ips == {"a", "b", "unknown"}
NoEntry == [present |-> FALSE, count |-> 0, windowStart |-> 0]
NoHits == [ip \in Ips |-> NoEntry]

\* !entry || now - entry.windowStart > IP_RATE_LIMIT.windowMs
WindowExpired(entry, t) ==
    ~entry.present \/ t - entry.windowStart > IP_RATE_LIMIT.windowMs

\* entry.count > IP_RATE_LIMIT.maxRequests
OverLimitOffByOne(count) == count > IP_RATE_LIMIT.maxRequests + 1
OverLimit(count) == count > IP_RATE_LIMIT.maxRequests

\* checkRateLimit: the new table, whether the request may proceed, and the
\* retryAfterMs of the 429 answer
CheckRateLimit(hits, req, t) ==
    LET ip == ClientIp(req)
        opened == IF WindowExpired(hits[ip], t)
                  THEN [present |-> TRUE, count |-> 0, windowStart |-> t]
                  ELSE hits[ip]
        entry == [opened EXCEPT !.count = @ + 1]
    IN [hits |-> [hits EXCEPT ![ip] = entry],
        allowed |-> ~OverLimit(entry.count),
        retryAfterMs |-> IP_RATE_LIMIT.windowMs - (t - entry.windowStart)]

\* the setInterval callback: drop the entries older than two windows
CleanupHits(hits, t) ==
    [ip \in Ips |->
        IF hits[ip].present /\ t - hits[ip].windowStart > IP_RATE_LIMIT.windowMs * 2
        THEN NoEntry ELSE hits[ip]]

\* setCors: an OPTIONS preflight is answered at once
IsPreflight(req) == req.method = "OPTIONS"

\* setCors(req, res): the headers it sets on the response and whether the
\* request goes on (a preflight is answered 204 at once)
CorsHeaders ==
    {<<"Access-Control-Allow-Origin", "*">>,
     <<"Access-Control-Allow-Methods", "GET, OPTIONS">>,
     <<"Access-Control-Allow-Headers", "Content-Type">>,
     <<"Access-Control-Max-Age", "3600">>}
SetCors(req) == [headers |-> CorsHeaders, proceed |-> ~IsPreflight(req)]

\* the document of docId, absent when the collection has none
StoreGet(st, docId) == IF docId \in DOMAIN st THEN st[docId] ELSE Absent

ReadCacheWholeDocument(st, docId) ==
    IF ~StoreGet(st, docId).exists THEN JNull
    ELSE Obj([data |-> StoreGet(st, docId).data,
              updatedAt |-> StoreGet(st, docId).updatedAt])

ReadCacheUndefinedOnMiss(st, docId) ==
    IF ~StoreGet(st, docId).exists THEN JUndefined
    ELSE StoreGet(st, docId).data

\* readCache(docId): null when the document does not exist, else its data
ReadCache(st, docId) ==
    IF ~StoreGet(st, docId).exists THEN JNull ELSE StoreGet(st, docId).data

\* the docIdFn of each endpoint: ok is whether the id is truthy
Endpoints ==
    {"getMeetings", "getSessions", "getSessionsByYear", "getDrivers",
     "getLatestDrivers", "getPositions", "getIntervals", "getSessionResult",
     "getLaps", "getWeather", "getRaceControl", "getStints",
     "getLatestSession", "getDriverStandings", "getConstructorStandings"}

\* req.query.year || new Date().getFullYear()
YearText(query, t) ==
    IF QFalsy(query.year) THEN ToString(YearOf(t)) ELSE query.year.text

\* the prefix of the endpoints keyed by session_key
SessionPrefix(endpoint) ==
    CASE endpoint = "getDrivers" -> "drivers_"
      [] endpoint = "getPositions" -> "positions_"
      [] endpoint = "getIntervals" -> "intervals_"
      [] endpoint = "getSessionResult" -> "result_"
      [] endpoint = "getLaps" -> "laps_"
      [] endpoint = "getWeather" -> "weather_"
      [] endpoint = "getRaceControl" -> "race_control_"
      [] endpoint = "getStints" -> "stints_"

NoDocId == [ok |-> FALSE, id |-> ""]
DocId(id) == [ok |-> id # "", id |-> id]

\* sessionKey ? `..._${sessionKey}` : null, with the extra suffix of getLaps
SessionDocIdUnguarded(endpoint, query) ==
    DocId(SessionPrefix(endpoint) \o query.session_key.text
          \o (IF endpoint # "getLaps" THEN ""
              ELSE IF QFalsy(query.driver_number) THEN "_all"
              ELSE "_" \o query.driver_number.text))
SessionDocId(endpoint, query) ==
    IF QFalsy(query.session_key) THEN NoDocId
    ELSE DocId(SessionPrefix(endpoint) \o query.session_key.text
               \o (IF endpoint # "getLaps" THEN ""
                   ELSE IF QFalsy(query.driver_number) THEN "_all"
                   ELSE "_" \o query.driver_number.text))

DocIdFn(endpoint, query, t) ==
    CASE endpoint = "getMeetings" -> DocId("meetings_" \o YearText(query, t))
      [] endpoint = "getSessions" ->
            IF QFalsy(query.meeting_key) THEN NoDocId
            ELSE DocId("sessions_" \o query.meeting_key.text)
      [] endpoint = "getSessionsByYear" ->
            DocId("sessions_year_" \o YearText(query, t))
      [] endpoint = "getLatestDrivers" -> DocId("drivers_latest")
      [] endpoint = "getLatestSession" -> DocId("latest_session")
      [] endpoint = "getDriverStandings" ->
            DocId("driver_standings_" \o YearText(query, t))
      [] endpoint = "getConstructorStandings" ->
            DocId("constructor_standings_" \o YearText(query, t))
      [] OTHER -> SessionDocId(endpoint, query)

\* response bodies that are not cached data
EmptyText == [t |-> "text", v |-> <<>>]
ErrorBody(message) == [t |-> "error", v |-> <<message>>]

\* an answer: read is what the store read gave ("none" when no read was
\* made), reads the number of store reads, passed whether the request got
\* through the middleware
Answer(status, body, read, docId, retryAfterMs) ==
    [status |-> status, body |-> body, read |-> read,
     reads |-> IF read = "none" THEN 0 ELSE 1, docId |-> docId,
     retryAfterMs |-> retryAfterMs, passed |-> status \notin {204, 429},
     headers |-> {}]
\* the answer sent on a response that carries headers already
Sent(headers, answer) == [answer EXCEPT !.headers = headers]

\* the body of the handler createEndpoint builds, after the middleware;
\* rfail is whether the store read throws
HandlerBody(req, st, t, rfail) ==
    LET docId == DocIdFn(req.endpoint, req.query, t)
        data == ReadCache(st, docId.id)
        found == IF StoreGet(st, docId.id).exists THEN "present" ELSE "absent"
    IN IF ~docId.ok
       THEN Answer(400, ErrorBody("Missing required query parameters"),
                   "none", "", 0)
       ELSE IF rfail
       THEN Answer(500, ErrorBody("Internal server error"), "error", docId.id, 0)
       ELSE IF data = JNull
       THEN Answer(200, Arr(<<>>), found, docId.id, 0)
       ELSE Answer(200, data, found, docId.id, 0)

HandleThenLimit(req, hits, st, t, rfail) ==
    LET rl == CheckRateLimit(hits, req, t)
        inner == HandlerBody(req, st, t, rfail)
    IN IF IsPreflight(req)
       THEN [hits |-> hits, answer |-> Answer(204, EmptyText, "none", "", 0)]
       ELSE IF ~rl.allowed
       THEN [hits |-> rl.hits,
             answer |-> [inner EXCEPT !.status = 429, !.passed = FALSE,
                                      !.body = ErrorBody("Too many requests"),
                                      !.retryAfterMs = rl.retryAfterMs]]
       ELSE [hits |-> rl.hits, answer |-> inner]

\* the middleware with the rate limit checked before setCors
HandleLimitFirst(req, hits, st, t, rfail) ==
    LET rl == CheckRateLimit(hits, req, t)
        cors == SetCors(req)
    IN IF ~rl.allowed
       THEN [hits |-> rl.hits,
             answer |-> Answer(429, ErrorBody("Too many requests"), "none", "",
                               rl.retryAfterMs)]
       ELSE IF ~cors.proceed
       THEN [hits |-> rl.hits,
             answer |-> Sent(cors.headers,
                             Answer(204, EmptyText, "none", "", 0))]
       ELSE [hits |-> rl.hits,
             answer |-> Sent(cors.headers, HandlerBody(req, st, t, rfail))]

\* applyMiddleware and the handler: the new table of hits and the answer
Handle(req, hits, st, t, rfail) ==
    LET cors == SetCors(req)
        rl == CheckRateLimit(hits, req, t)
    IN IF ~cors.proceed
       THEN [hits |-> hits,
             answer |-> Sent(cors.headers,
                             Answer(204, EmptyText, "none", "", 0))]
       ELSE IF ~rl.allowed
       THEN [hits |-> rl.hits,
             answer |-> Sent(cors.headers,
                             Answer(429, ErrorBody("Too many requests"),
                                    "none", "", rl.retryAfterMs))]
       ELSE [hits |-> rl.hits,
             answer |-> Sent(cors.headers, HandlerBody(req, st, t, rfail))]

NoRequest ==
    [endpoint |-> "none", method |-> "GET", xff |-> <<>>, ip |-> "",
     query |-> NoQuery]
NoHttp ==
    [req |-> NoRequest, status |-> 0, body |-> EmptyText, read |-> "none",
     reads |-> 0, docId |-> "", retryAfterMs |-> 0, passed |-> FALSE,
     headers |-> {}]

\* the fixed windows as the clients see them: for each address the instant
\* its current window opened and the requests let through since
NoWindows == [ip \in Ips |-> [open |-> FALSE, since |-> 0, passed |-> 0]]
Observe(log, req, t, answer) ==
    LET ip == ClientIp(req)
        w == IF ~log[ip].open \/ t > log[ip].since + IP_RATE_LIMIT.windowMs
             THEN [open |-> TRUE, since |-> t, passed |-> 0]
             ELSE log[ip]
    IN IF IsPreflight(req) THEN log
       ELSE [log EXCEPT ![ip] = [w EXCEPT !.passed =
                                    IF answer.passed THEN @ + 1 ELSE @]]

Exchange(req, a) ==
    [req |-> req, status |-> a.status, body |-> a.body, read |-> a.read,
     reads |-> a.reads, docId |-> a.docId, retryAfterMs |-> a.retryAfterMs,
     passed |-> a.passed, headers |-> a.headers]

\* one HTTP request served by the instance
Serve(req, rfail) ==
    LET h == Handle(req, ipHits, store, now, rfail)
    IN /\ ipHits' = h.hits
       /\ http' = Exchange(req, h.answer)
       /\ windowLog' = Observe(windowLog, req, now, h.answer)
       /\ UNCHANGED <<now, limVars, calls, store, lastRun, runs, inv, probe, wlog,
                      clientVars>>

Request(req, rfail) ==
    /\ requests < MaxRequests
    /\ requests' = requests + 1
    /\ Serve(req, rfail)

\* a request of a client that may flood the instance
HitCap(ip) == IF ip = "a" THEN MaxHits ELSE MaxOtherHits
FloodRequest(req) ==
    /\ ~IsPreflight(req) =>
          \/ WindowExpired(ipHits[ClientIp(req)], now)
          \/ ipHits[ClientIp(req)].count < HitCap(ClientIp(req))
    /\ UNCHANGED requests
    /\ Serve(req, FALSE)

\* the cleanup timer fires every five minutes
Cleanup ==
    /\ now >= CLEANUP_INTERVAL_MS
    /\ now % CLEANUP_INTERVAL_MS <= MaxLateness
    /\ ipHits' = CleanupHits(ipHits, now)
    /\ UNCHANGED <<now, limVars, calls, store, lastRun, runs, inv, probe,
                   requests, http, windowLog, wlog, clientVars>>

ReadTick(t) ==
    /\ t > now
    /\ now' = t
    /\ UNCHANGED <<limVars, calls, offNet>>

\* --- the requests the clients send -----------------------------------------
YearChoices == {QAbsent, QText("2026"), QText("1999")}
KeyChoices == {QAbsent, QText(""), QText("1")}
ByYear == {"getMeetings", "getSessionsByYear", "getDriverStandings",
           "getConstructorStandings"}
BySession == {"getDrivers", "getPositions", "getIntervals", "getSessionResult",
              "getLaps", "getWeather", "getRaceControl", "getStints"}
Queries(endpoint) ==
    IF endpoint \in ByYear
    THEN {[NoQuery EXCEPT !.year = y] : y \in YearChoices}
    ELSE IF endpoint = "getSessions"
    THEN {[NoQuery EXCEPT !.meeting_key = k] : k \in KeyChoices}
    ELSE IF endpoint = "getLaps"
    THEN {[NoQuery EXCEPT !.session_key = k, !.driver_number = d] :
             k \in KeyChoices, d \in {QAbsent, QText("44")}}
    ELSE IF endpoint \in BySession
    THEN {[NoQuery EXCEPT !.session_key = k] : k \in KeyChoices}
    ELSE {NoQuery}

\* who sends: address b directly, with every query; address a through a
\* proxy, with and without its parameter, also as a preflight
ReadRequests ==
    UNION {{[endpoint |-> e, method |-> "GET", xff |-> <<>>, ip |-> "b",
             query |-> q] : q \in Queries(e)} : e \in Endpoints}
    \cup UNION {{[endpoint |-> e, method |-> m, xff |-> <<"a">>, ip |-> "b",
                  query |-> q] :
                    m \in {"GET", "OPTIONS"},
                    q \in {NoQuery, [NoQuery EXCEPT !.session_key = QText("1"),
                                                    !.meeting_key = QText("1")]}} :
                e \in Endpoints}

\* the flooding clients: address a behind one or two proxies, b directly,
\* a client the platform cannot name, and a preflight
FloodSenders ==
    {[xff |-> <<"a">>, ip |-> "b"], [xff |-> <<"a", "b">>, ip |-> ""],
     [xff |-> <<>>, ip |-> "b"], [xff |-> <<"">>, ip |-> ""]}
FloodRequests ==
    {[endpoint |-> "getLatestSession", method |-> "GET", xff |-> w.xff,
      ip |-> w.ip, query |-> NoQuery] : w \in FloodSenders}
    \cup {[endpoint |-> "getLatestSession", method |-> "OPTIONS",
           xff |-> <<"a">>, ip |-> "b", query |-> NoQuery]}

FloodInstants == {60000, 60001, 300000}

\* address a has used up its window: 60 requests at instant 0
FullWindow(ip) ==
    /\ ipHits = [NoHits EXCEPT ![ip] = [present |-> TRUE,
                                        count |-> IP_RATE_LIMIT.maxRequests,
                                        windowStart |-> 0]]
    /\ windowLog = [NoWindows EXCEPT ![ip] = [open |-> TRUE, since |-> 0,
                                              passed |-> IP_RATE_LIMIT.maxRequests]]

\* --- cacheWrite and readCache called directly ----------------------------
StoreKeys == {LatestSessionKey, DriversLatestKey}
StoreData == {JNull, Arr(<<>>), Arr(<<[sample |-> 1]>>), JUndefined}
StoreInstants == {1000000}

\* cacheWrite(docId, data); done is whether the call returned
StoreWrite(docId, data) ==
    LET c == CacheWrite(NewRun(store), docId, data, now, {})
    IN /\ Len(wlog) < MaxWrites
       /\ store' = c.store
       /\ wlog' = Append(wlog, [key |-> docId, data |-> data, done |-> ~c.threw])
       /\ UNCHANGED <<now, limVars, calls, lastRun, runs, inv, probe, ipHits,
                      requests, http, windowLog, clientVars>>

ReadIdle ==
    /\ ipHits = NoHits
    /\ requests = 0
    /\ http = NoHttp
    /\ windowLog = NoWindows
    /\ wlog = <<>>


(***************************************************************************)
(* The dashboard's API client: cacheGet, cacheSet, backgroundRefresh and   *)
(* fetchBackend                                                            *)
(***************************************************************************)
\* Math.max(...Object.values(CACHE_DURATION))
CACHE_MAX_AGE == 24 * 60 * 60 * 1000

\* the TTLs the getters below pass to fetchBackend
CACHE_DURATION ==
    [drivers |-> 3 * 60 * 60 * 1000, standings |-> 2 * 60 * 60 * 1000,
     positions |-> 60 * 1000]

\* the season the page shows
ActiveSeason == 2026

\* the getters that wrap fetchBackend in try/catch; "fetchBackend" stands for
\* a widget that calls fetchBackend through a getter without one
Getters ==
    {"getLatestDrivers", "getDriverStandings", "getConstructorStandings",
     "getLatestSession"}
GetterKey(g) ==
    IF g = "getLatestDrivers" THEN "drivers_latest"
    ELSE IF g = "getDriverStandings"
    THEN "driver_standings_" \o ToString(ActiveSeason)
    ELSE IF g = "getConstructorStandings"
    THEN "constructor_standings_" \o ToString(ActiveSeason)
    ELSE "latest_session"
GetterDuration(g) ==
    IF g = "getLatestDrivers" THEN CACHE_DURATION.drivers
    ELSE IF g = "getLatestSession" THEN CACHE_DURATION.positions
    ELSE CACHE_DURATION.standings

\* the cache keys of the getters; the widgets of the dashboard model use two
ClientKeys == {GetterKey(g) : g \in Getters}
WidgetKeys == {"drivers_latest", "latest_session"}
Payloads == {"old", "new"}
EmptyList == "[]"
NullData == "null"
FalsyData == "false"

\* how a promise has settled; data is the value or stands for the error
Pending == [kind |-> "pending", data |-> ""]
Fulfilled(data) == [kind |-> "fulfilled", data |-> data]
Rejected == [kind |-> "rejected", data |-> "error"]

\* what the promise a getter returned settles with, s being how the promise
\* of its fetchBackend call settled: getLatestSession awaits the call inside
\* its try, the other getters return the promise from inside theirs
GetterSettles(g, s) ==
    IF g = "getLatestSession"
    THEN IF s.kind = "rejected" THEN Fulfilled(NullData)
         ELSE IF s.data \in {FalsyData, NullData} THEN Fulfilled(NullData)
         ELSE s
    ELSE s
\* the last first-load call that settled: who called, how fetchBackend's
\* promise settled and how the caller's did
NoSettled ==
    [caller |-> "", key |-> "", inner |-> Pending, result |-> Pending]

\* a cache entry {data, timestamp}; has is FALSE for undefined
NoCached == [has |-> FALSE, data |-> "", timestamp |-> 0]
Cached(data, t) == [has |-> TRUE, data |-> data, timestamp |-> t]

\* a localStorage item: none, the JSON text of an entry, or text that
\* JSON.parse rejects
NoItem == [kind |-> "none", data |-> "", timestamp |-> 0]
Item(entry) ==
    [kind |-> "entry", data |-> entry.data, timestamp |-> entry.timestamp]
CorruptItem == [kind |-> "corrupt", data |-> "", timestamp |-> 0]

\* the last call of cacheSet: its arguments, how many of its setItem calls
\* threw and how many it made
NoSet == [key |-> "", entry |-> NoCached, full |-> 0, attempts |-> 0]

\* the client when the page has loaded, over the localStorage ls; updated
\* counts the f1x:cache-updated events dispatched for each key
NewClient(ls) ==
    [cache |-> [k \in ClientKeys |-> NoCached],
     ls |-> ls,
     pending |-> {},
     active |-> 0,
     bgSent |-> [k \in ClientKeys |-> 0],
     bgBody |-> [k \in ClientKeys |-> 0],
     syncSent |-> [k \in ClientKeys |-> 0],
     syncBody |-> [k \in ClientKeys |-> 0],
     issuedBg |-> [k \in ClientKeys |-> 0],
     issuedSync |-> [k \in ClientKeys |-> 0],
     updated |-> [k \in ClientKeys |-> 0],
     caller |-> [k \in ClientKeys |-> "fetchBackend"],
     settled |-> NoSettled,
     lastSet |-> NoSet,
     events |-> <<>>]

\* cacheGet that asks localStorage before the in-memory map
CacheGetStorageFirst(c, key) ==
    IF c.ls[key].kind = "entry"
    THEN LET entry == Cached(c.ls[key].data, c.ls[key].timestamp)
         IN [client |-> [c EXCEPT !.cache[key] = entry], entry |-> entry]
    ELSE IF c.cache[key].has THEN [client |-> c, entry |-> c.cache[key]]
    ELSE IF c.ls[key].kind = "corrupt"
    THEN [client |-> [c EXCEPT !.ls[key] = NoItem], entry |-> NoCached]
    ELSE [client |-> c, entry |-> NoCached]

\* cacheGet(key): the client after the call and the entry returned
CacheGet(c, key) ==
    IF c.cache[key].has THEN [client |-> c, entry |-> c.cache[key]]
    ELSE IF c.ls[key].kind = "entry"
    THEN LET entry == Cached(c.ls[key].data, c.ls[key].timestamp)
         IN [client |-> [c EXCEPT !.cache[key] = entry], entry |-> entry]
    ELSE IF c.ls[key].kind = "corrupt"
    THEN [client |-> [c EXCEPT !.ls[key] = NoItem], entry |-> NoCached]
    ELSE [client |-> c, entry |-> NoCached]

\* clearExpiredCache() with the corrupt items left in place
ClearExpiredCacheKeepsCorrupt(ls, t) ==
    [k \in ClientKeys |->
        IF ls[k].kind = "entry" /\ t - ls[k].timestamp > CACHE_MAX_AGE
        THEN NoItem
        ELSE ls[k]]

\* clearExpiredCache()
ClearExpiredCache(ls, t) ==
    [k \in ClientKeys |->
        IF ls[k].kind = "corrupt" THEN NoItem
        ELSE IF ls[k].kind = "entry" /\ t - ls[k].timestamp > CACHE_MAX_AGE
        THEN NoItem
        ELSE ls[k]]

\* cacheSet that keeps an empty list out of both tiers
CacheSetSkipsEmpty(c, key, entry, t, full) ==
    LET c1 == [c EXCEPT !.cache[key] = entry,
                        !.lastSet = [key |-> key, entry |-> entry,
                                     full |-> full,
                                     attempts |-> IF full = 0 THEN 1 ELSE 2]]
    IN IF entry.data = EmptyList THEN c
       ELSE IF full = 0 THEN [c1 EXCEPT !.ls[key] = Item(entry)]
       ELSE IF full = 1
       THEN [c1 EXCEPT !.ls = [ClearExpiredCache(c.ls, t) EXCEPT
                                  ![key] = Item(entry)]]
       ELSE [c1 EXCEPT !.ls = ClearExpiredCache(c.ls, t)]

\* cacheSet(key, entry); full is how many of the setItem calls throw
CacheSet(c, key, entry, t, full) ==
    LET c1 == [c EXCEPT !.cache[key] = entry,
                        !.lastSet = [key |-> key, entry |-> entry,
                                     full |-> full,
                                     attempts |-> IF full = 0 THEN 1 ELSE 2]]
    IN IF full = 0 THEN [c1 EXCEPT !.ls[key] = Item(entry)]
       ELSE IF full = 1
       THEN [c1 EXCEPT !.ls = [ClearExpiredCache(c.ls, t) EXCEPT
                                  ![key] = Item(entry)]]
       ELSE [c1 EXCEPT !.ls = ClearExpiredCache(c.ls, t)]

\* document.dispatchEvent(new CustomEvent(name)), as the listeners see it
DispatchEvent(c, name) == [c EXCEPT !.events = Append(@, name)]

\* bgRefreshStart(), bgRefreshEnd()
BgRefreshStartAlways(c) ==
    DispatchEvent([c EXCEPT !.active = @ + 1], "f1x:bg-refresh-start")

BgRefreshStart(c) ==
    LET c1 == [c EXCEPT !.active = @ + 1]
    IN IF c1.active = 1 THEN DispatchEvent(c1, "f1x:bg-refresh-start") ELSE c1

BgRefreshEnd(c) ==
    LET c1 == [c EXCEPT !.active = IF @ - 1 > 0 THEN @ - 1 ELSE 0]
    IN IF c1.active = 0 THEN DispatchEvent(c1, "f1x:bg-refresh-end") ELSE c1

\* backgroundRefresh(url, fullCacheKey), up to pendingRefreshes.set
BackgroundRefreshUntracked(c, key) ==
    [BgRefreshStart(c) EXCEPT !.bgSent[key] = @ + 1,
                              !.issuedBg[key] = @ + 1]
BackgroundRefresh(c, key) ==
    IF key \in c.pending THEN c
    ELSE [BgRefreshStart(c) EXCEPT !.bgSent[key] = @ + 1,
                                   !.issuedBg[key] = @ + 1,
                                   !.pending = @ \cup {key}]

\* Date.now() - cached.timestamp < cacheDuration
IsFreshInverted(entry, t, cacheDuration) ==
    t - entry.timestamp > cacheDuration
IsFresh(entry, t, cacheDuration) == t - entry.timestamp < cacheDuration

\* fetchBackend up to its first await or return: the client after it and
\* what the call returned, if it did
FetchBackend(c, key, cacheDuration, t) ==
    LET g == CacheGet(c, key)
        cached == g.entry
    IN IF cached.has /\ IsFresh(cached, t, cacheDuration)
       THEN [client |-> g.client, outcome |-> "fresh", returned |-> TRUE,
             data |-> cached.data]
       ELSE IF cached.has
       THEN [client |-> BackgroundRefresh(g.client, key), outcome |-> "stale",
             returned |-> TRUE, data |-> cached.data]
       ELSE [client |-> [BgRefreshStart(g.client) EXCEPT
                            !.syncSent[key] = @ + 1, !.issuedSync[key] = @ + 1],
             outcome |-> "miss", returned |-> FALSE, data |-> ""]

NoGet ==
    [n |-> 0, key |-> "", cacheDuration |-> 0, at |-> 0, outcome |-> "none",
     returned |-> FALSE, data |-> "", joined |-> 0]

\* caller calls fetchBackend for key; a call that has to wait for the
\* network is remembered with its caller
Called(caller, key, cacheDuration) ==
    LET r == FetchBackend(client, key, cacheDuration, now)
    IN /\ lastGet.n < MaxGets
       /\ client' = IF r.returned THEN r.client
                    ELSE [r.client EXCEPT !.caller[key] = caller]
       /\ lastGet' = [n |-> lastGet.n + 1, key |-> key,
                      cacheDuration |-> cacheDuration, at |-> now,
                      outcome |-> r.outcome, returned |-> r.returned,
                      data |-> r.data,
                      joined |-> IF r.outcome = "stale" /\ key \in client.pending
                                 THEN lastGet.joined + 1 ELSE lastGet.joined]
       /\ UNCHANGED <<now, limVars, calls, store, lastRun, runs, inv, probe, readVars,
                      api>>

\* a widget calls fetchBackend
Get(key, cacheDuration) == Called("fetchBackend", key, cacheDuration)

\* a consumer calls one of the guarded getters
CallGetter(g) == Called(g, GetterKey(g), GetterDuration(g))

\* the promise of the first-load call for key settles with s, and with it
\* the promise its caller handed out
Settle(c, key, s) ==
    [c EXCEPT !.settled = [caller |-> c.caller[key], key |-> key,
                           inner |-> s,
                           result |-> GetterSettles(c.caller[key], s)]]

\* .finally(() => { pendingRefreshes.delete(fullCacheKey); bgRefreshEnd(); })
BgFinallyKeepsPending(c, key) == BgRefreshEnd(c)

BgFinally(c, key) == BgRefreshEnd([c EXCEPT !.pending = @ \ {key}])

\* the answer to a background request arrives: with response.ok the body is
\* awaited, otherwise (or when the request failed) the refresh ends
BgRespond(key, ok) ==
    /\ client.bgSent[key] > 0
    /\ client' = IF ok
                 THEN [client EXCEPT !.bgSent[key] = @ - 1, !.bgBody[key] = @ + 1]
                 ELSE BgFinally([client EXCEPT !.bgSent[key] = @ - 1], key)
    /\ UNCHANGED <<now, limVars, calls, store, lastRun, runs, inv, probe, readVars,
                   lastGet, api>>

\* cacheSet(fullCacheKey, {data, timestamp}) and the dispatch of
\* f1x:cache-updated that follows it
OnRefreshedNoStore(c, key, data, t, full) ==
    [c EXCEPT !.updated[key] = @ + 1]

OnRefreshed(c, key, data, t, full) ==
    [CacheSet(c, key, Cached(data, t), t, full) EXCEPT !.updated[key] = @ + 1]

\* the body of a background answer is parsed: the cache is updated, the
\* widgets are notified and the refresh ends
BgBody(key, data, full) ==
    /\ client.bgBody[key] > 0
    /\ client' = BgFinally(
                   OnRefreshed([client EXCEPT !.bgBody[key] = @ - 1], key,
                               data, now, full),
                   key)
    /\ UNCHANGED <<now, limVars, calls, store, lastRun, runs, inv, probe, readVars,
                   lastGet, api>>

\* the answer to a first-load request arrives: with response.ok the body is
\* awaited, otherwise the call throws (finally { bgRefreshEnd() })
SyncRespond(key, ok) ==
    /\ client.syncSent[key] > 0
    /\ client' = IF ok
                 THEN [client EXCEPT !.syncSent[key] = @ - 1,
                                     !.syncBody[key] = @ + 1]
                 ELSE Settle(BgRefreshEnd([client EXCEPT
                                              !.syncSent[key] = @ - 1]),
                             key, Rejected)
    /\ UNCHANGED <<now, limVars, calls, store, lastRun, runs, inv, probe, readVars,
                   lastGet, api>>

\* the body of a first-load answer is parsed: the cache is updated and the
\* call returns the data
SyncBody(key, data, full) ==
    /\ client.syncBody[key] > 0
    /\ client' = Settle(
                   BgRefreshEnd(
                     CacheSet([client EXCEPT !.syncBody[key] = @ - 1], key,
                              Cached(data, now), now, full)),
                   key, Fulfilled(data))
    /\ UNCHANGED <<now, limVars, calls, store, lastRun, runs, inv, probe, readVars,
                   lastGet, api>>

ClientTick(t) ==
    /\ t > now
    /\ now' = t
    /\ UNCHANGED <<limVars, calls, offNet>>

(***************************************************************************)
(* The direct-to-upstream client (src/js/api.js): fetchAPI, its request     *)
(* queue and its table of in-flight requests.  The code uses the clock only *)
(* in differences (Date.now() - lastRequestTime, Date.now() -               *)
(* cached.timestamp) and in timers; the differences are kept instead of the *)
(* instants, each no further than the value the code compares it with.      *)
(***************************************************************************)
RATE_LIMIT_DELAY == 250
BACKOFF_429 == 2000
ApiKeys == {"positions_1", "latest_session"}
\* CACHE_DURATION.positions; getLatestSession passes the same 30000
ApiDuration(key) == 30000
\* ages are followed up to the longest duration an entry is compared with
ApiMaxAge == ApiDuration("positions_1")

\* a cache entry with the time since its timestamp
NoApiEntry == [has |-> FALSE, data |-> "", age |-> 0]
ApiEntry(data) == [has |-> TRUE, data |-> data, age |-> 0]

\* an item of requestQueue: its promise, its key and the entry fetchAPI found
QueueItem(id, key, cached) == [id |-> id, key |-> key, cached |-> cached]
NoItemApi == QueueItem(0, "", NoApiEntry)

NoApiCall == [n |-> 0, key |-> "", outcome |-> "none", promise |-> 0]

\* the module after loading: lastRequestTime = 0 lies far in the past
\* pc: "idle" no loop is running; "delay" in the await of the minimum delay;
\* "fetching" in await fetch(url); "backoff" in the await after a 429;
\* "body" in await response.json()
NewApi ==
    [cache |-> [k \in ApiKeys |-> NoApiEntry],
     inFlightRequests |-> [k \in ApiKeys |-> 0],
     requestQueue |-> <<>>,
     isProcessingQueue |-> FALSE,
     sinceLastRequest |-> RATE_LIMIT_DELAY,
     pc |-> "idle",
     cur |-> NoItemApi,
     timer |-> 0,
     promises |-> <<>>,
     lastCall |-> NoApiCall]

\* lastRequestTime = Date.now(); const response = await fetch(url)
SendRequest(a) == [a EXCEPT !.sinceLastRequest = 0, !.pc = "fetching", !.timer = 0]

\* the while test, the shift and the minimum delay, up to the first await
LoopTop(a) ==
    IF Len(a.requestQueue) = 0
    THEN [a EXCEPT !.isProcessingQueue = FALSE, !.pc = "idle", !.cur = NoItemApi,
                   !.timer = 0]
    ELSE LET b == [a EXCEPT !.cur = Head(a.requestQueue),
                            !.requestQueue = Tail(a.requestQueue)]
         IN IF a.sinceLastRequest < RATE_LIMIT_DELAY
            THEN [b EXCEPT !.pc = "delay",
                           !.timer = RATE_LIMIT_DELAY - a.sinceLastRequest]
            ELSE SendRequest(b)

\* processRequestQueue(), called by fetchAPI
ProcessRequestQueue(a) ==
    IF a.isProcessingQueue THEN a
    ELSE LoopTop([a EXCEPT !.isProcessingQueue = TRUE])

\* resolve(...) or reject(error) of the current item's promise
SettleCur(a, how) == [a EXCEPT !.promises[a.cur.id] = how]

\* finally { inFlightRequests.delete(fullCacheKey) }
Finally(a, retried) == [a EXCEPT !.inFlightRequests[a.cur.key] = 0]

\* catch (error): the cached data if fetchAPI found any, else reject
CatchError(a) ==
    SettleCur(a, IF a.cur.cached.has THEN "resolved" ELSE "rejected")

\* fetchAPI(endpoint, params, cacheKey, cacheDuration)
FetchAPI(a, key, cacheDuration) ==
    LET cached == a.cache[key]
        n == a.lastCall.n + 1
    IN IF cached.has /\ cached.age < cacheDuration
       THEN [a EXCEPT !.lastCall = [n |-> n, key |-> key, outcome |-> "fresh",
                                    promise |-> 0]]
       ELSE IF a.inFlightRequests[key] # 0
       THEN [a EXCEPT !.lastCall = [n |-> n, key |-> key, outcome |-> "joined",
                                    promise |-> a.inFlightRequests[key]]]
       ELSE LET id == Len(a.promises) + 1
                queued == [a EXCEPT !.promises = Append(@, "pending"),
                                    !.requestQueue =
                                        Append(@, QueueItem(id, key, cached))]
            IN [ProcessRequestQueue(queued) EXCEPT
                   !.inFlightRequests[key] = id,
                   !.lastCall = [n |-> n, key |-> key, outcome |-> "queued",
                                 promise |-> id]]

\* no code of the client is running: it waits for a timer or the network
ApiCall(key) ==
    /\ api.lastCall.n < MaxCalls
    /\ api' = FetchAPI(api, key, ApiDuration(key))
    /\ UNCHANGED <<now, limVars, calls, offNet0, client, lastGet>>

\* the timer of the minimum delay fires
ApiDelayDone ==
    /\ api.pc = "delay" /\ api.timer = 0
    /\ api' = SendRequest(api)
    /\ UNCHANGED <<now, limVars, calls, offNet0, client, lastGet>>

\* the answer arrives: "ok", "429", another status, or fetch throws
ApiResponses == {"ok", "429", "error", "throw"}
ApiRespond(r) ==
    /\ api.pc = "fetching"
    /\ api' = IF r = "ok" THEN [api EXCEPT !.pc = "body"]
              ELSE IF r = "429"
              THEN [api EXCEPT !.pc = "backoff", !.timer = BACKOFF_429]
              ELSE LoopTop(Finally(CatchError(api), FALSE))
    /\ UNCHANGED <<now, limVars, calls, offNet0, client, lastGet>>

\* the 2 s timer fires: requestQueue.unshift(item); continue (the finally
\* block runs on the way out of the try statement)
ApiBackoffDone ==
    /\ api.pc = "backoff" /\ api.timer = 0
    /\ api' = LoopTop(Finally([api EXCEPT !.requestQueue = <<api.cur>> \o @],
                              TRUE))
    /\ UNCHANGED <<now, limVars, calls, offNet0, client, lastGet>>

\* response.json() settles: the entry is stored and the promise resolved, or
\* the body does not parse and the catch block runs
ApiBody(parsed) ==
    /\ api.pc = "body"
    /\ api' = IF parsed
              THEN LoopTop(Finally(
                     SettleCur([api EXCEPT !.cache[api.cur.key] = ApiEntry("new")],
                               "resolved"),
                     FALSE))
              ELSE LoopTop(Finally(CatchError(api), FALSE))
    /\ UNCHANGED <<now, limVars, calls, offNet0, client, lastGet>>

\* time passes: up to the pending timer, or by one of ApiSteps
ApiSteps == {2000, 30000}
Elapse(a, d) ==
    [a EXCEPT !.sinceLastRequest = Min(RATE_LIMIT_DELAY, @ + d),
              !.timer = IF @ > d THEN @ - d ELSE 0,
              !.cache = [k \in ApiKeys |->
                            IF @[k].has
                            THEN [@[k] EXCEPT !.age = Min(ApiMaxAge, @ + d)]
                            ELSE @[k]]]
ApiTick ==
    /\ \E d \in (IF api.timer > 0 THEN {api.timer} ELSE ApiSteps) :
          api' = Elapse(api, d)
    /\ api' # api
    /\ UNCHANGED <<now, limVars, calls, offNet0, client, lastGet>>

\* --- what the dashboard asks for and finds in localStorage ---------------
CacheDurations == {60000}
ClientInstants == {59999, 60000, 90000000}
StoredItems == {NoItem, CorruptItem, Item(Cached("old", 0))}
WidgetStorage ==
    {ls \in [ClientKeys -> StoredItems] :
        \A k \in ClientKeys \ WidgetKeys : ls[k] = NoItem}

ClientIdle ==
    /\ client = NewClient([k \in ClientKeys |-> NoItem])
    /\ lastGet = NoGet
    /\ api = NewApi

ConcurrentJobs == {"refreshLiveData", "refreshBaseData"}

\* inv[job]: the invocation of job in progress, if any
\* pc: "idle"; "sessions" in await fetchSessions; "writeLatest" in await
\* cacheWrite("latest_session"); "fetching" in the Promise.all of the seven
\* fetches; "writing" in the Promise.all of the writes; "drivers" in await
\* fetchDrivers; "writeDrivers", "writeAlias" in the two awaited writes
\* started: invocations begun; clean: every fetch and write of the job
\* succeeded so far
Idle(started, clean) ==
    [pc |-> "idle", latest |-> JNull, drivers |-> JNull, writes |-> {},
     started |-> started, clean |-> clean]
NoInvocations == [j \in ConcurrentJobs |-> Idle(0, TRUE)]

JobsIdle ==
    /\ store = EmptyStore
    /\ lastRun = NoRun
    /\ runs = 0
    /\ inv = NoInvocations
    /\ probe = NoProbe

Init ==
    LimiterInit(Capacities, 0) /\ CallsInit /\ JobsIdle /\ ReadIdle /\ ClientIdle

InitFetch ==
    /\ LimiterInit(FetchCapacities, 0) /\ CallsInit /\ JobsIdle /\ ReadIdle
    /\ ClientIdle

\* the first invocation finds the store empty or filled, just before the
\* live window of the session opens
InitJobs ==
    /\ LimiterInit(Capacities, 199999) /\ CallsInit
    /\ store \in {EmptyStore, SeededStore}
    /\ lastRun = NoRun
    /\ runs = 0
    /\ inv = NoInvocations
    /\ probe = NoProbe
    /\ ReadIdle
    /\ ClientIdle

\* the read layer starts with an empty or a filled store, before any request
\* or after a burst of address a
InitRead ==
    /\ LimiterInit(Capacities, 0) /\ CallsInit
    /\ store \in {EmptyStore, SeededStore}
    /\ lastRun = NoRun
    /\ runs = 0
    /\ inv = NoInvocations
    /\ probe = NoProbe
    /\ (ipHits = NoHits /\ windowLog = NoWindows) \/ FullWindow("a")
    /\ requests = 0
    /\ http = NoHttp
    /\ wlog = <<>>
    /\ ClientIdle

\* the page has loaded: the in-memory cache is empty and localStorage holds
\* what earlier visits left
InitClient ==
    /\ LimiterInit(Capacities, 0) /\ CallsInit /\ JobsIdle
    /\ ipHits = NoHits
    /\ requests = 0
    /\ http = NoHttp
    /\ windowLog = NoWindows
    /\ wlog = <<>>
    /\ client \in {NewClient(ls) : ls \in WidgetStorage}
    /\ lastGet = NoGet
    /\ api = NewApi

\* the consumers call the guarded getters on a page whose localStorage holds
\* nothing or an old entry for every key
GetterPayloads == {"new", FalsyData}
GetterInstants == {60000, 11000000}
InitGetters ==
    /\ LimiterInit(Capacities, 0) /\ CallsInit
    /\ store = EmptyStore
    /\ lastRun = NoRun
    /\ runs = 0
    /\ inv = NoInvocations
    /\ probe = NoProbe
    /\ ReadIdle
    /\ client \in {NewClient([k \in ClientKeys |-> i]) :
                       i \in {NoItem, Item(Cached("old", 0))}}
    /\ lastGet = NoGet
    /\ api = NewApi

NextGetters ==
    \/ \E g \in Getters : CallGetter(g)
    \/ \E key \in ClientKeys, ok \in BOOLEAN : SyncRespond(key, ok)
    \/ \E key \in ClientKeys, data \in GetterPayloads : SyncBody(key, data, 0)
    \/ \E key \in ClientKeys, ok \in BOOLEAN : BgRespond(key, ok)
    \/ \E key \in ClientKeys, data \in GetterPayloads : BgBody(key, data, 0)
    \/ \E t \in GetterInstants : ClientTick(t)

SpecGetters == InitGetters /\ [][NextGetters]_vars

NextClient ==
    \/ \E key \in WidgetKeys, d \in CacheDurations : Get(key, d)
    \/ \E key \in WidgetKeys, ok \in BOOLEAN : BgRespond(key, ok)
    \/ \E key \in WidgetKeys, data \in Payloads, full \in 0..2 :
          BgBody(key, data, full)
    \/ \E key \in WidgetKeys, ok \in BOOLEAN : SyncRespond(key, ok)
    \/ \E key \in WidgetKeys, data \in Payloads : SyncBody(key, data, 0)
    \/ \E t \in ClientInstants : ClientTick(t)

SpecClient == InitClient /\ [][NextClient]_vars

\* the dashboard calls fetchAPI while the upstream answers as it likes
NextApi ==
    \/ \E key \in ApiKeys : ApiCall(key)
    \/ ApiDelayDone
    \/ \E r \in ApiResponses : ApiRespond(r)
    \/ ApiBackoffDone
    \/ \E parsed \in BOOLEAN : ApiBody(parsed)
    \/ ApiTick

SpecApi == Init /\ [][NextApi]_vars

\* timers fire, time passes, and every request gets some answer
LiveSpecApi ==
    /\ SpecApi
    /\ WF_vars(ApiDelayDone) /\ WF_vars(ApiBackoffDone) /\ WF_vars(ApiTick)
    /\ WF_vars(\E r \in ApiResponses : ApiRespond(r))
    /\ WF_vars(\E parsed \in BOOLEAN : ApiBody(parsed))

NextRead ==
    \/ \E req \in ReadRequests, rfail \in BOOLEAN : Request(req, rfail)
    \/ RunRefreshMeetingsOnce

SpecRead == InitRead /\ [][NextRead]_vars

NextStore ==
    \/ \E docId \in StoreKeys, data \in StoreData : StoreWrite(docId, data)
    \/ \E t \in StoreInstants : ReadTick(t)

SpecStore == InitJobs /\ [][NextStore]_vars

NextRate ==
    \/ \E req \in FloodRequests : FloodRequest(req)
    \/ Cleanup
    \/ \E t \in FloodInstants : ReadTick(t)

SpecRate == Init /\ [][NextRate]_vars

NextFetch ==
    \/ \E c \in Calls : FetchCall(c)
    \/ \E c \in Calls : FetchSend(c)
    \/ \E c \in Calls, r \in Responses : FetchRespond(c, r)
    \/ \E c \in Calls : FetchRetry(c)
    \/ WorkerRefill
    \/ WorkerExit
    \/ WorkerGrant
    \/ WorkerSleep
    \/ WorkerWake
    \/ \E d \in Steps : FetchTick(d)

SpecFetch == InitFetch /\ [][NextFetch]_vars

NextJobs ==
    \/ RunRefreshMeetings
    \/ RunRefreshStandings
    \/ RunRefreshLiveData
    \/ RunRefreshBaseData
    \/ \E t \in JobInstants : JobTick(t)

SpecJobs == InitJobs /\ [][NextJobs]_vars

\* the two batch jobs, with every combination of failing live fetches
LiveInstants == {1000000}
NextBatch ==
    \/ RunRefreshLiveDataAnySubset
    \/ RunRefreshMeetings
    \/ \E t \in LiveInstants : JobTick(t)

SpecBatch == InitJobs /\ [][NextBatch]_vars

\* the scheduler invokes the four jobs in any order
Jobs ==
    {"refreshMeetings", "refreshStandings", "refreshLiveData", "refreshBaseData"}
NextSchedule ==
    \/ \E job \in Jobs, up \in BOOLEAN : RunPlain(job, up)
    \/ \E t \in LiveInstants : JobTick(t)

SpecSchedule == InitJobs /\ [][NextSchedule]_vars

(***************************************************************************)
(* The dashboard served by the read layer while the jobs fill the store.   *)
(***************************************************************************)
\* the endpoint fetchBackend asks for key
EndpointOf(key) ==
    IF key = "drivers_latest" THEN "getLatestDrivers" ELSE "getLatestSession"
RequestFor(key) ==
    [endpoint |-> EndpointOf(key), method |-> "GET", xff |-> <<>>, ip |-> "b",
     query |-> NoQuery]

\* await response.json(): the body as the client holds it
Json(body) == IF body = Arr(<<>>) THEN EmptyList ELSE "new"

\* the body the read layer sends for key out of the store as it is now
ServedData(key) == Json(HandlerBody(RequestFor(key), store, now, FALSE).body)

ServedSyncBody(key) == SyncBody(key, ServedData(key), 0)
ServedBgBody(key) == BgBody(key, ServedData(key), 0)

\* refreshBaseData runs against an upstream that answers
RunRefreshBaseDataUp ==
    Invoke("refreshBaseData",
           RefreshBaseData(store, now, Upstream(TRUE, SessionsPayload),
                           Upstream(TRUE, LivePayload), {}))

ServedInstants == {30000, 60000}
InitServed ==
    /\ LimiterInit(Capacities, 0) /\ CallsInit /\ JobsIdle /\ ReadIdle
    /\ ClientIdle

NextServed ==
    \/ \E key \in WidgetKeys, d \in CacheDurations : Get(key, d)
    \/ \E key \in WidgetKeys, ok \in BOOLEAN : SyncRespond(key, ok)
    \/ \E key \in WidgetKeys : ServedSyncBody(key)
    \/ \E key \in WidgetKeys, ok \in BOOLEAN : BgRespond(key, ok)
    \/ \E key \in WidgetKeys : ServedBgBody(key)
    \/ RunRefreshBaseDataUp
    \/ \E t \in ServedInstants : ClientTick(t)

SpecServed == InitServed /\ [][NextServed]_vars

(***************************************************************************)
(* refreshLiveData and refreshBaseData running at the same time: each       *)
(* invocation advances from one await to the next, and the writes of a     *)
(* Promise.all are committed by the store in any order.                    *)
(***************************************************************************)
\* the handler returns, or its catch block has logged the error
Return(i, ok) == Idle(i.started, i.clean /\ ok)

\* the scheduler invokes job, which is not running
Start(job) ==
    /\ inv[job].pc = "idle"
    /\ inv[job].started < MaxStarts
    /\ inv' = [inv EXCEPT ![job].pc = "sessions", ![job].started = @ + 1]
    /\ UNCHANGED <<now, limVars, calls, store, lastRun, runs, probe, readVars,
                   clientVars>>

\* const sessions = await upstream.fetchSessions({session_key: "latest"})
SessionsFetched(job, f) ==
    /\ inv[job].pc = "sessions"
    /\ inv' = [inv EXCEPT ![job] =
                 IF f.kind = "throw" THEN Return(@, FALSE)
                 ELSE [@ EXCEPT !.pc = "writeLatest",
                                !.latest = LatestOf(f.value)]]
    /\ UNCHANGED <<now, limVars, calls, store, lastRun, runs, probe, readVars,
                   clientVars>>

\* await cacheWrite("latest_session", latestSession) and the tests after it
LatestWritten(job, ok) ==
    LET i == inv[job]
    IN /\ i.pc = "writeLatest"
       /\ store' = IF ok THEN [store EXCEPT ![LatestSessionKey] = Doc(i.latest, now)]
                   ELSE store
       /\ inv' = [inv EXCEPT ![job] =
                    IF ~ok THEN Return(i, FALSE)
                    ELSE IF ~Truthy(i.latest) THEN Return(i, TRUE)
                    ELSE IF job = "refreshBaseData" THEN [i EXCEPT !.pc = "drivers"]
                    ELSE IF ~IsSessionInLiveWindow(i.latest, now) THEN Return(i, TRUE)
                    ELSE [i EXCEPT !.pc = "fetching"]]
       /\ UNCHANGED <<now, limVars, calls, lastRun, runs, probe, readVars,
                      clientVars>>

\* the Promise.all of the seven fetches settles with results (null for a
\* fetch that failed); the writes are pushed and issued
LiveFetched(results) ==
    LET i == inv["refreshLiveData"]
        w == LiveWrites(1, results, i.latest.v[1].session_key)
        writes == {w[n] : n \in DOMAIN w}
        ok == \A r \in DOMAIN results : Truthy(results[r])
    IN /\ i.pc = "fetching"
       /\ inv' = [inv EXCEPT !["refreshLiveData"] =
                    IF writes = {} THEN Return(i, ok)
                    ELSE [i EXCEPT !.pc = "writing", !.writes = writes,
                                   !.clean = @ /\ ok]]
       /\ UNCHANGED <<now, limVars, calls, store, lastRun, runs, probe, readVars,
                      clientVars>>

\* the store commits or rejects one of the writes in progress; the handler
\* goes on when all of them have settled
LiveWriteSettled(w, ok) ==
    LET i == inv["refreshLiveData"]
    IN /\ i.pc = "writing"
       /\ w \in i.writes
       /\ store' = IF ok THEN [store EXCEPT ![w.docId] = Doc(w.data, now)]
                   ELSE store
       /\ inv' = [inv EXCEPT !["refreshLiveData"] =
                    IF i.writes = {w} THEN Return(i, ok)
                    ELSE [i EXCEPT !.writes = @ \ {w}, !.clean = @ /\ ok]]
       /\ UNCHANGED <<now, limVars, calls, lastRun, runs, probe, readVars,
                      clientVars>>

\* const drivers = await upstream.fetchDrivers(sessionKey); if (drivers)
DriversFetched(f) ==
    LET i == inv["refreshBaseData"]
    IN /\ i.pc = "drivers"
       /\ inv' = [inv EXCEPT !["refreshBaseData"] =
                    IF f.kind = "throw" THEN Return(i, FALSE)
                    ELSE IF ~Truthy(f.value) THEN Return(i, FALSE)
                    ELSE [i EXCEPT !.pc = "writeDrivers", !.drivers = f.value]]
       /\ UNCHANGED <<now, limVars, calls, store, lastRun, runs, probe, readVars,
                      clientVars>>

\* await cacheWrite(`drivers_${sessionKey}`, drivers)
DriversWritten(ok) ==
    LET i == inv["refreshBaseData"]
        docId == LiveKey("drivers", i.latest.v[1].session_key)
    IN /\ i.pc = "writeDrivers"
       /\ store' = IF ok THEN [store EXCEPT ![docId] = Doc(i.drivers, now)]
                   ELSE store
       /\ inv' = [inv EXCEPT !["refreshBaseData"] =
                    IF ok THEN [i EXCEPT !.pc = "writeAlias"]
                    ELSE Return(i, FALSE)]
       /\ UNCHANGED <<now, limVars, calls, lastRun, runs, probe, readVars,
                      clientVars>>

\* await cacheWrite("drivers_latest", drivers)
AliasWritten(ok) ==
    LET i == inv["refreshBaseData"]
    IN /\ i.pc = "writeAlias"
       /\ store' = IF ok THEN [store EXCEPT ![DriversLatestKey] = Doc(i.drivers, now)]
                   ELSE store
       /\ inv' = [inv EXCEPT !["refreshBaseData"] = Return(i, ok)]
       /\ UNCHANGED <<now, limVars, calls, lastRun, runs, probe, readVars,
                      clientVars>>

\* what the upstream answers while the session is live: the driver list
\* changes between two fetches; the other six live fetches succeed or fail
\* together
DriversPayloads ==
    {Arr(<<[driver_number |-> 1]>>),
     Arr(<<[driver_number |-> 1], [driver_number |-> 4]>>)}
Returned(value) == [kind |-> "return", value |-> value]
Thrown == [kind |-> "throw", value |-> JNull]
LiveResults ==
    {[r \in LiveSet |-> IF r = "drivers" THEN d ELSE o] :
        d \in DriversPayloads \cup {JNull}, o \in {LivePayload, JNull}}

InitConcurrent ==
    /\ LimiterInit(Capacities, 2000000) /\ CallsInit
    /\ store = EmptyStore
    /\ lastRun = NoRun
    /\ runs = 0
    /\ inv = NoInvocations
    /\ probe = NoProbe
    /\ ReadIdle
    /\ ClientIdle

NextConcurrent ==
    \/ \E job \in ConcurrentJobs : Start(job)
    \/ \E job \in ConcurrentJobs, f \in {Returned(SessionsPayload), Thrown} :
          SessionsFetched(job, f)
    \/ \E job \in ConcurrentJobs, ok \in BOOLEAN : LatestWritten(job, ok)
    \/ \E results \in LiveResults : LiveFetched(results)
    \/ \E w \in inv["refreshLiveData"].writes, ok \in BOOLEAN :
          LiveWriteSettled(w, ok)
    \/ \E f \in {Returned(d) : d \in DriversPayloads} \cup {Thrown} :
          DriversFetched(f)
    \/ \E ok \in BOOLEAN : DriversWritten(ok)
    \/ \E ok \in BOOLEAN : AliasWritten(ok)

SpecConcurrent == InitConcurrent /\ [][NextConcurrent]_vars


NextWindow ==
    \/ \E session \in ProbeSessions : CheckWindow(session)
    \/ \E t \in WindowInstants : WindowTick(t)

SpecWindow == Init /\ [][NextWindow]_vars

Next ==
    \/ Acquire
    \/ WorkerRefill
    \/ WorkerExit
    \/ WorkerGrant
    \/ WorkerSleep
    \/ WorkerWake
    \/ \E d \in Steps : Tick(d)

Spec == Init /\ [][Next]_vars

\* timers fire and the event loop runs the worker's continuations
LiveSpec ==
    /\ Spec
    /\ WF_vars(WorkerRefill) /\ WF_vars(WorkerExit) /\ WF_vars(WorkerGrant)
    /\ WF_vars(WorkerSleep) /\ WF_vars(WorkerWake)
    /\ WF_vars(\E d \in Steps : Tick(d))

(***************************************************************************)
(* Properties                                                              *)
(***************************************************************************)
RollingCount(t, w) ==
    Cardinality({i \in DOMAIN grantLog :
                    grantLog[i].at > t - w /\ grantLog[i].at <= t})

\* C1: no more than perSecond grants fall in any rolling 1-second window and
\* no more than perMinute grants in any rolling 60-second window.
C1_RollingWindows ==
    \A i \in DOMAIN grantLog :
        /\ RollingCount(grantLog[i].at, 1000) <= limiter.perSecond
        /\ RollingCount(grantLog[i].at, 60000) <= limiter.perMinute

\* C2: acquire() calls are granted in the order they were enqueued, and a
\* call enqueued earlier is granted no later than one enqueued after it.
C2_Fifo ==
    \A i \in DOMAIN grantLog :
        /\ grantLog[i].ticket = i
        /\ i > 1 => grantLog[i - 1].at <= grantLog[i].at

\* two calls that waited in the queue together have both been granted
W2_QueuedTogether ==
    \E i, j \in DOMAIN grantLog :
        i < j /\ enqueueLog[grantLog[j].ticket] < grantLog[i].at

\* C3: both token counters stay within 0..capacity; a grant happens only
\* when both are positive and decrements each by exactly one in that step.
C3_TokenBounds ==
    /\ [](/\ 0 <= limiter.secondTokens /\ limiter.secondTokens <= limiter.perSecond
          /\ 0 <= limiter.minuteTokens /\ limiter.minuteTokens <= limiter.perMinute)
    /\ [][Len(grantLog') > Len(grantLog) =>
            /\ Len(grantLog') = Len(grantLog) + 1
            /\ limiter.secondTokens > 0 /\ limiter.minuteTokens > 0
            /\ limiter'.secondTokens = limiter.secondTokens - 1
            /\ limiter'.minuteTokens = limiter.minuteTokens - 1]_vars

\* a grant out of a minute bucket that was refilled, taking the last tokens
W3_GrantAfterRefill ==
    /\ Len(grantLog) > limiter.perMinute
    /\ limiter.lastMinuteRefill >= 60000
    /\ limiter.secondTokens = 0

\* C4: every acquire() call is eventually granted, given that time advances
\* and timers fire.
C4_EventuallyGranted ==
    \A k \in 1..MaxAcquires : (nextTicket >= k) ~> Granted(k)

\* a call was granted after the worker slept for it
W4_GrantedAfterWait ==
    \E i \in DOMAIN grantLog :
        grantLog[i].at >= enqueueLog[grantLog[i].ticket] + 2000

Finished(c) == calls[c].pc \in {"returned", "threw"}

NonDecreasing(seq) == \A i, j \in DOMAIN seq : i <= j => seq[i] <= seq[j]

\* C5: a call that got HTTP 429 on every attempt has made exactly
\* MAX_RETRIES + 1 attempts when it ends, each attempt was sent under a fresh
\* grant of the limiter, and its backoff waits never decrease.
C5_RetriesOn429 ==
    \A c \in Calls :
        /\ calls[c].pc = "fetching" =>
              /\ Granted(calls[c].ticket)
              /\ calls[c].ticket = nextTicket
              /\ Len(grantLog) = calls[c].sent
        /\ calls[c].statuses \subseteq {429} =>
              /\ calls[c].sent <= MAX_RETRIES + 1
              /\ NonDecreasing(calls[c].waits)
              /\ Finished(c) => calls[c].sent = MAX_RETRIES + 1

\* C6: a call whose MAX_RETRIES + 1 attempts all got HTTP 429 ends by
\* raising an error, never by returning.
C6_RaisesAfter429s ==
    \A c \in Calls :
        (Finished(c) /\ calls[c].statuses = {429}) => calls[c].pc = "threw"

\* C7: a non-2xx status other than 429 fails the call at once: no backoff
\* sleep, no further attempt, and a single attempt when it was the first
\* answer.
C7_FailFast ==
    \A c \in Calls :
        500 \in calls[c].statuses =>
            /\ calls[c].pc = "threw"
            /\ calls[c].statuses = {500} => calls[c].sent = 1

\* all four attempts were answered 429 and the call is over
W5_All429Done ==
    \E c \in Calls :
        /\ Finished(c)
        /\ calls[c].statuses = {429}
        /\ calls[c].waits = <<1000, 3000, 8000, 8000>>

\* C8: a job leaves the document of every resource whose fetch delivered no
\* payload as it was before the job.
C8_FailedRefreshKeepsEntry ==
    \A k \in lastRun.undelivered : store[k] = lastRun.before[k]

\* C9: every invocation of a scheduled job returns normally, whatever fails
\* inside it.
C9_JobsReturnNormally == lastRun.job # "none" => ~lastRun.threw

\* an invocation in which a fetch or a write threw has returned
W9_ReturnedDespiteErrors ==
    /\ lastRun.job = "refreshLiveData"
    /\ lastRun.errors > 0
    /\ ~lastRun.threw

\* C10: isSessionInLiveWindow is true exactly when the session has both
\* dates and start - 30 min <= now <= end + 60 min, both ends included.
C10_LiveWindowInclusive ==
    probe.asked =>
        (probe.result <=>
            /\ probe.session.t = "object"
            /\ probe.session.v[1].date_start.kind = "iso"
            /\ probe.session.v[1].date_end.kind = "iso"
            /\ probe.session.v[1].date_start.ms - 30 * 60 * 1000 <= probe.at
            /\ probe.at <= probe.session.v[1].date_end.ms + 60 * 60 * 1000)

\* the function answered true at the very end of a window
W10_TrueAtWindowEnd ==
    /\ probe.asked /\ probe.result
    /\ probe.session.t = "object"
    /\ probe.at = probe.session.v[1].date_end.ms + 60 * 60 * 1000

\* the session of the end-to-end scenarios: it starts at T = 2000000 and
\* ends 3600000 later
ScenarioSession == Obj(SessionAt(Iso(2000000), Iso(2000000 + 3600000)))

LiveDataRun ==
    lastRun.job = "refreshLiveData" /\ lastRun.latest = ScenarioSession

WrittenKeys == {lastRun.written[i] : i \in DOMAIN lastRun.written}

\* no live resource was fetched and no document but latest_session written
LiveSkipped ==
    /\ lastRun.fetched = {"/sessions"}
    /\ WrittenKeys \subseteq {LatestSessionKey}

\* C11 (as stated): refreshLiveData run 1000000 ms before the start of the
\* session skips the live fetch and writes latest_session only.
C11_SkippedBeforeStart ==
    (LiveDataRun /\ lastRun.at = 2000000 - 1000000) =>
        /\ LiveSkipped
        /\ lastRun.errors = 0 => lastRun.written = <<LatestSessionKey>>

\* C11 (amended): refreshLiveData run more than 30 minutes before the start
\* of the session skips the live fetch and writes latest_session only.
C11_SkippedBeforeGrace ==
    (LiveDataRun /\ lastRun.at < 2000000 - 30 * 60 * 1000) =>
        /\ LiveSkipped
        /\ lastRun.errors = 0 => lastRun.written = <<LatestSessionKey>>

\* an invocation just before the window opens wrote latest_session
W11_RanBeforeGrace ==
    /\ LiveDataRun
    /\ lastRun.at = 2000000 - 30 * 60 * 1000 - 1
    /\ lastRun.written = <<LatestSessionKey>>

\* C12 (as stated): refreshLiveData run at T + 3660000 + 1000 skips the live
\* fetch: no live resource is fetched or written.
C12_SkippedAfterEnd ==
    (LiveDataRun /\ lastRun.at = 2000000 + 3660000 + 1000) => LiveSkipped

\* C12 (amended): refreshLiveData run more than 60 minutes after the end of
\* the session skips the live fetch: no live resource is fetched or written.
C12_SkippedAfterGrace ==
    (LiveDataRun /\ lastRun.at > 2000000 + 3600000 + 60 * 60 * 1000) =>
        LiveSkipped

\* an invocation just after the window closed wrote latest_session
W12_RanAfterGrace ==
    /\ LiveDataRun
    /\ lastRun.at = 2000000 + 3600000 + 60 * 60 * 1000 + 1
    /\ lastRun.written = <<LatestSessionKey>>

\* the latest request got through the middleware and its store read, if
\* any, was answered
Handled == http.passed /\ http.read # "error"

\* the request lacks the identifying parameter its endpoint requires
RequiredAbsentIn(req) ==
    \/ req.endpoint = "getSessions" /\ ~req.query.meeting_key.given
    \/ req.endpoint \in BySession /\ ~req.query.session_key.given
RequiredAbsent == RequiredAbsentIn(http.req)

\* C13: a request that reaches the handler without the identifying parameter
\* its endpoint requires is answered 400 and no store read is made, whatever
\* the store contains.
C13_MissingParameter400 ==
    (http.passed /\ RequiredAbsent) => (http.status = 400 /\ http.reads = 0)

\* such a request was answered while the store held the document it would
\* have named had the parameter been 1
W13_RefusedOverFilledStore ==
    /\ http.passed /\ RequiredAbsent
    /\ http.req.endpoint = "getDrivers"
    /\ store[LiveKey("drivers", 1)].exists

\* C14: when the store has no document under the key an endpoint builds, the
\* answer is 200 with body [].
C14_AbsentDocumentEmptyArray ==
    http.read = "absent" => (http.status = 200 /\ http.body = Arr(<<>>))

\* a key of a year nothing was cached for was asked from a filled store
W14_AbsentInFilledStore ==
    /\ http.read = "absent"
    /\ http.docId = "meetings_1999"
    /\ store = SeededStore

GetMeetings2026 ==
    /\ http'.req.endpoint = "getMeetings"
    /\ http'.req.query.year = QText("2026")
    /\ http'.req.method = "GET"
    /\ http'.passed /\ http'.read # "error"

\* C15: getMeetings?year=2026 served from an empty store answers 200 [];
\* served after a refreshMeetings invocation for 2026 that completed without
\* error it answers 200 with the meetings that invocation fetched.
C15_MeetingsAfterRefresh ==
    [][(requests' = requests + 1 /\ GetMeetings2026) =>
          /\ store = EmptyStore => (http'.status = 200 /\ http'.body = Arr(<<>>))
          /\ (/\ lastRun.job = "refreshMeetings"
              /\ lastRun.errors = 0
              /\ YearOf(lastRun.at) = 2026) =>
                 (http'.status = 200 /\ http'.body = lastRun.meetings)]_vars

\* the request was answered with the two meetings a refresh had just cached
W15_ServedAfterRefresh ==
    /\ http.req.endpoint = "getMeetings"
    /\ http.req.query.year = QText("2026")
    /\ lastRun.job = "refreshMeetings" /\ lastRun.errors = 0
    /\ http.status = 200
    /\ http.body = lastRun.meetings
    /\ Len(http.body.v) = 2

\* C17: a request changes neither the store nor the upstream client's state
\* (no store write, no upstream call) and makes at most one store read: none
\* when it is a preflight, is rate-limited or lacks a required parameter.
C17_ReadOnly ==
    [][requests' = requests + 1 =>
          /\ store' = store
          /\ calls' = calls /\ limiter' = limiter /\ grantLog' = grantLog
          /\ http'.reads <= 1
          /\ (\/ http'.req.method = "OPTIONS"
              \/ http'.status = 429
              \/ RequiredAbsentIn(http'.req))
                => http'.reads = 0]_vars

\* a rate-limited request for a cached document was answered without a read
W17_RateLimitedNoRead ==
    /\ http.status = 429
    /\ http.req.endpoint = "getLatestSession"
    /\ store = SeededStore
    /\ http.reads = 0

\* the latest cacheWrite(k, ...) call that returned, 0 when there is none
LastWriteTo(k) ==
    LET done == {i \in DOMAIN wlog : wlog[i].key = k /\ wlog[i].done}
    IN IF done = {} THEN 0
       ELSE CHOOSE i \in done : \A j \in done : j <= i

\* C16: a read of a key returns the data of the latest write to that key,
\* however often and with whatever data the key was written before, and a
\* write to a key leaves the document of every other key as it was.
C16_LastWriteWins ==
    /\ [](\A k \in StoreKeys :
             LastWriteTo(k) # 0 =>
                ReadCache(store, k) = wlog[LastWriteTo(k)].data)
    /\ [][Len(wlog') > Len(wlog) =>
            \A k \in DOMAIN store :
                k # wlog'[Len(wlog')].key => store'[k] = store[k]]_vars

\* a key was written twice with the same data and then with other data,
\* next to documents of other keys
W16_RewrittenThenOverwritten ==
    /\ Len(wlog) = 3
    /\ \A i \in 1..3 : wlog[i].key = LatestSessionKey /\ wlog[i].done
    /\ wlog[1].data = wlog[2].data
    /\ wlog[2].data # wlog[3].data
    /\ store[DriversLatestKey].exists

\* the latest step served a request of address ip that the limiter counted
CountedFor(ip) ==
    /\ ipHits'[ip].present
    /\ ipHits'[ip] # ipHits[ip]

\* C18: in each window of an address (opened by its first request after the
\* previous window expired, lasting windowMs) at most maxRequests requests
\* pass the limiter; a further request in the window is answered 429 with
\* 0 <= retryAfterMs <= windowMs and makes no store read.
C18_IpRateLimit ==
    /\ [](\A ip \in Ips : windowLog[ip].passed <= IP_RATE_LIMIT.maxRequests)
    /\ [](http.status = 429 =>
             /\ 0 <= http.retryAfterMs
             /\ http.retryAfterMs <= IP_RATE_LIMIT.windowMs
             /\ http.reads = 0 /\ http.read = "none")
    /\ [][\A ip \in Ips :
            (/\ CountedFor(ip)
             /\ windowLog[ip].open
             /\ now <= windowLog[ip].since + IP_RATE_LIMIT.windowMs
             /\ windowLog[ip].passed = IP_RATE_LIMIT.maxRequests)
               => (http'.status = 429 /\ ClientIp(http'.req) = ip)]_vars

\* the 61st request of a window was refused at the window's last instant
W18_RefusedAtWindowEnd ==
    /\ http.status = 429
    /\ http.retryAfterMs = 0
    /\ windowLog[ClientIp(http.req)].passed = IP_RATE_LIMIT.maxRequests

\* the entry the client holds for a key: the in-memory one, else the one
\* localStorage has
HeldEntry(k) ==
    IF client.cache[k].has THEN client.cache[k]
    ELSE IF client.ls[k].kind = "entry"
    THEN Cached(client.ls[k].data, client.ls[k].timestamp)
    ELSE NoCached

\* the requests of a key that are on the network
Outstanding(c, k) == c.bgSent[k] + c.bgBody[k] + c.syncSent[k] + c.syncBody[k]

\* C19: a fetchBackend call for a key whose entry is younger than the TTL
\* returns the entry's data at once and issues no network request, neither
\* awaited nor in the background.
C19_FreshNoNetwork ==
    [][lastGet'.n = lastGet.n + 1 =>
          LET e == HeldEntry(lastGet'.key)
          IN (e.has /\ now - e.timestamp < lastGet'.cacheDuration) =>
                /\ lastGet'.returned
                /\ lastGet'.data = e.data
                /\ client'.issuedBg = client.issuedBg
                /\ client'.issuedSync = client.issuedSync
                /\ \A k \in ClientKeys :
                      Outstanding(client', k) = Outstanding(client, k)]_vars

\* the third call in a row was served from an entry one millisecond short
\* of its TTL without any request ever being sent
W19_FreshJustBelowTtl ==
    /\ lastGet.n >= 3
    /\ lastGet.outcome = "fresh"
    /\ lastGet.at = 59999
    /\ \A k \in ClientKeys : client.issuedBg[k] = 0 /\ client.issuedSync[k] = 0

\* C20: a fetchBackend call for a key whose entry has reached the TTL
\* returns the stale data at once, and however many such calls are made
\* while a background refresh of the key is outstanding, one background
\* request is on the network for the key and no other is issued.
C20_StaleOneRefresh ==
    [][lastGet'.n = lastGet.n + 1 =>
          LET k == lastGet'.key
              e == HeldEntry(k)
          IN (e.has /\ now - e.timestamp >= lastGet'.cacheDuration) =>
                /\ lastGet'.returned
                /\ lastGet'.data = e.data
                /\ client'.issuedSync = client.issuedSync
                /\ client'.bgSent[k] + client'.bgBody[k] = 1
                /\ client'.issuedBg[k] =
                      client.issuedBg[k]
                      + (IF client.bgSent[k] + client.bgBody[k] > 0 THEN 0 ELSE 1)]_vars

\* two calls found the refresh of their key under way and one request was
\* sent
W20_TwoCallsJoined ==
    /\ lastGet.joined >= 2
    /\ lastGet.outcome = "stale"
    /\ client.issuedBg[lastGet.key] = 1

\* a background refresh of k parsed its body in this step, or ended without
\* one (non-2xx answer, network error)
BgSucceeded(k) == client'.bgBody[k] < client.bgBody[k]
BgFailed(k) ==
    /\ client'.bgSent[k] < client.bgSent[k]
    /\ client'.bgBody[k] = client.bgBody[k]

\* what a failed refresh leaves alone, and when a notification is dispatched
BgFailureSilent(k) ==
    /\ BgFailed(k) => /\ client'.cache = client.cache
                      /\ client'.ls = client.ls
                      /\ client'.updated = client.updated
                      /\ lastGet' = lastGet
    /\ client'.updated[k] # client.updated[k] => BgSucceeded(k)

\* C21 as stated: when a background refresh succeeds, both the in-memory and
\* the persistent tier hold the new entry when f1x:cache-updated is
\* dispatched for the key; when it fails neither tier changes, nothing is
\* dispatched and no get caller sees an error.
C21_BothTiersBeforeNotice ==
    [][\A k \in ClientKeys :
          /\ BgSucceeded(k) =>
                /\ client'.updated[k] = client.updated[k] + 1
                /\ client'.lastSet.key = k
                /\ client'.lastSet.entry.timestamp = now
                /\ client'.cache[k] = client'.lastSet.entry
                /\ client'.ls[k] = Item(client'.lastSet.entry)
          /\ BgFailureSilent(k)]_vars

\* C21 amended: when a background refresh succeeds, the in-memory tier holds
\* the new entry when f1x:cache-updated is dispatched for the key, and the
\* persistent tier holds it too unless both setItem calls threw (then the
\* persistent tier holds what the cleanup pass left); when the refresh fails
\* neither tier changes, nothing is dispatched and no get caller sees an
\* error.
C21_MemoryTierBeforeNotice ==
    [][\A k \in ClientKeys :
          /\ BgSucceeded(k) =>
                /\ client'.updated[k] = client.updated[k] + 1
                /\ client'.lastSet.key = k
                /\ client'.lastSet.entry.timestamp = now
                /\ client'.cache[k] = client'.lastSet.entry
                /\ client'.lastSet.full < 2 =>
                      client'.ls[k] = Item(client'.lastSet.entry)
                /\ client'.lastSet.full = 2 =>
                      client'.ls[k] = ClearExpiredCache(client.ls, now)[k]
          /\ BgFailureSilent(k)]_vars

\* a refresh replaced an old entry in both tiers and the widgets were told
W21_NotifiedAfterBothTiers ==
    \E k \in ClientKeys :
        /\ client.updated[k] = 1
        /\ client.lastSet.key = k
        /\ client.lastSet.entry.data = "new"
        /\ client.cache[k] = client.lastSet.entry
        /\ client.ls[k] = Item(client.lastSet.entry)
        /\ k \notin client.pending

\* cacheSet(k, ...) ran in this step: a background or a first-load answer
\* for k had its body parsed
SetRan(k) ==
    \/ client'.bgBody[k] < client.bgBody[k]
    \/ client'.syncBody[k] < client.syncBody[k]

\* a localStorage item the cleanup pass removes at instant t
Removable(item, t) ==
    \/ item.kind = "corrupt"
    \/ item.kind = "entry" /\ t - item.timestamp > CACHE_MAX_AGE

\* C22: when the first setItem of cacheSet throws, the in-memory tier holds
\* the new entry, the cleanup pass removes from localStorage the items older
\* than the longest TTL and the corrupt ones (and no other), the write is
\* tried once more; when that fails too the item of the key is not written,
\* and cacheGet of the key returns the new in-memory entry either way.
C22_StorageFullRetryOnce ==
    [][\A k \in ClientKeys :
          (SetRan(k) /\ client'.lastSet.full >= 1) =>
              /\ client'.lastSet.key = k
              /\ client'.cache[k] = client'.lastSet.entry
              /\ client'.lastSet.attempts = 2
              /\ \A j \in ClientKeys \ {k} :
                    client'.ls[j] = IF Removable(client.ls[j], now)
                                    THEN NoItem ELSE client.ls[j]
              /\ client'.lastSet.full = 1 =>
                    client'.ls[k] = Item(client'.lastSet.entry)
              /\ client'.lastSet.full = 2 =>
                    client'.ls[k] = IF Removable(client.ls[k], now)
                                    THEN NoItem ELSE client.ls[k]
              /\ CacheGet(client', k).entry = client'.lastSet.entry]_vars

\* both writes failed at an instant when the item of another key had
\* outlived the longest TTL: that item is gone, the new entry is in memory
\* only
W22_DroppedAfterCleanup ==
    \E k \in ClientKeys, j \in ClientKeys :
        /\ j # k
        /\ client.lastSet.key = k
        /\ client.lastSet.full = 2
        /\ client.lastSet.entry.timestamp = now
        /\ client.cache[k] = client.lastSet.entry
        /\ client.ls[k] # Item(client.lastSet.entry)
        /\ client.cache[j].has /\ now - client.cache[j].timestamp > CACHE_MAX_AGE
        /\ client.ls[j] = NoItem

\* what a guarded getter hands its consumer when it has nothing else
Fallback(g) == IF g = "getLatestSession" THEN NullData ELSE EmptyList

\* C23: when the cache has no entry for the key and the backend request
\* fails, the promise of getLatestDrivers, getDriverStandings and
\* getConstructorStandings is fulfilled with [] and that of getLatestSession
\* with null; none is rejected.
C23_GettersNeverReject ==
    \A g \in Getters :
        (client.settled.caller = g /\ client.settled.inner.kind = "rejected")
            => client.settled.result = Fulfilled(Fallback(g))

\* the documents the last invocation wrote
Wrote(k) == \E i \in DOMAIN lastRun.written : lastRun.written[i] = k

\* the fetch for document k delivered and the store accepted the write
FetchedAndAccepted(k) ==
    k \notin lastRun.undelivered /\ k \notin lastRun.failed

\* the meetings the last refreshMeetings invocation went through
MeetingsOfRun ==
    IF lastRun.meetings.t = "array"
    THEN {lastRun.meetings.v[i].meeting_key : i \in DOMAIN lastRun.meetings.v}
    ELSE {}

\* C24: in refreshLiveData, whatever subset of the seven fetches fails, each
\* resource whose fetch succeeded (and whose write the store accepts) is
\* written; in refreshMeetings, once the meetings are cached, a failed
\* sessions fetch or write for one meeting leaves sessions_<meetingKey>
\* written for each other meeting whose fetch and write succeed.
C24_BatchIsolation ==
    /\ (lastRun.job = "refreshLiveData" /\ "/position" \in lastRun.fetched) =>
          \A r \in LiveSet, k \in SessionKeys :
              FetchedAndAccepted(LiveKey(r, k)) =>
                  /\ Wrote(LiveKey(r, k))
                  /\ store[LiveKey(r, k)] = Doc(LivePayload, lastRun.at)
    /\ (lastRun.job = "refreshMeetings" /\ Wrote(MeetingsKey(YearOf(lastRun.at)))) =>
          \A mk \in MeetingsOfRun :
              FetchedAndAccepted(SessionsKey(mk)) =>
                  /\ Wrote(SessionsKey(mk))
                  /\ store[SessionsKey(mk)] = Doc(SessionsPayload, lastRun.at)

\* three of the seven live fetches failed and the other four were written
W24_FourOfSevenWritten ==
    /\ lastRun.job = "refreshLiveData"
    /\ "/position" \in lastRun.fetched
    /\ lastRun.failed = {}
    /\ Cardinality({r \in LiveSet : LiveKey(r, 1) \in lastRun.undelivered}) = 3
    /\ \A r \in LiveSet :
          LiveKey(r, 1) \notin lastRun.undelivered =>
              store[LiveKey(r, 1)] = Doc(LivePayload, lastRun.at)

\* the two documents refreshStandings writes in the year of the last run
StandingsKeys ==
    {DriverStandingsKey(YearOf(lastRun.at)),
     ConstructorStandingsKey(YearOf(lastRun.at))}

\* C25: when exactly one of the two standings fetches of refreshStandings
\* fails, the result of the other is still written to its key.
C25_StandingsIsolation ==
    lastRun.job = "refreshStandings" =>
        \A k \in StandingsKeys, other \in StandingsKeys :
            (/\ other # k
             /\ k \in lastRun.undelivered
             /\ other \notin lastRun.undelivered
             /\ other \notin lastRun.failed)
                => /\ Wrote(other)
                   /\ store[other].exists
                   /\ store[other].updatedAt = lastRun.at

\* the documents refreshLiveData and refreshBaseData both write
SharedKeys ==
    {LatestSessionKey, DriversLatestKey}
    \cup {LiveKey("drivers", k) : k \in SessionKeys}

\* C26 as stated: no document is written by more than one of the four jobs.
C26_JobKeysDisjoint ==
    \A k \in Keys : Cardinality(lastRun.writers[k]) <= 1

\* C26 amended: refreshMeetings and refreshStandings write documents no other
\* job writes; refreshLiveData and refreshBaseData have latest_session,
\* drivers_<k> and drivers_latest in common and no other document.
C26_JobKeysDisjointButShared ==
    \A k \in Keys :
        \/ Cardinality(lastRun.writers[k]) <= 1
        \/ /\ k \in SharedKeys
           /\ lastRun.writers[k] = {"refreshLiveData", "refreshBaseData"}

\* three jobs have run: the two that share documents wrote them both, the
\* third wrote documents of its own
W26_SharedAndOwnKeys ==
    /\ \A k \in SharedKeys :
          lastRun.writers[k] = {"refreshLiveData", "refreshBaseData"}
    /\ \E k \in Keys : lastRun.writers[k] = {"refreshMeetings"}
    /\ \A r \in LiveSet \ {"drivers"} :
          lastRun.writers[LiveKey(r, 1)] = {"refreshLiveData"}

\* the session the last invocation found is in its live window at the
\* instant the invocation ran
LatestIsLive ==
    IF Truthy(lastRun.latest)
    THEN IsSessionInLiveWindow(lastRun.latest, lastRun.at)
    ELSE FALSE

\* C27: a refreshLiveData invocation whose latest-session fetch succeeded
\* (and whose write the store accepted) writes latest_session first; when the
\* session is null or not in its live window it fetches nothing further and
\* writes no other document.
C27_LiveGating ==
    (/\ lastRun.job = "refreshLiveData"
     /\ LatestSessionKey \notin lastRun.undelivered
     /\ LatestSessionKey \notin lastRun.failed)
        => /\ Len(lastRun.written) >= 1
           /\ lastRun.written[1] = LatestSessionKey
           /\ store[LatestSessionKey] = Doc(lastRun.latest, lastRun.at)
           /\ ~LatestIsLive =>
                 /\ lastRun.fetched = {"/sessions"}
                 /\ lastRun.written = <<LatestSessionKey>>

\* the upstream knew no session: null was written under latest_session over
\* a filled store and nothing else happened
W27_NullSessionWritten ==
    /\ lastRun.job = "refreshLiveData"
    /\ LatestSessionKey \notin lastRun.undelivered
    /\ lastRun.latest = JNull
    /\ lastRun.before = SeededStore
    /\ lastRun.written = <<LatestSessionKey>>
    /\ lastRun.fetched = {"/sessions"}
    /\ store[LatestSessionKey] = Doc(JNull, lastRun.at)

\* the last invocation obtained a drivers result for session key k
DriversObtained(k) ==
    /\ "/drivers" \in lastRun.fetched
    /\ LiveKey("drivers", k) \notin lastRun.undelivered

\* the write of document d was issued: it was made or the store rejected it
Issued(d) == Wrote(d) \/ d \in lastRun.failed

\* C28: a refreshLiveData or refreshBaseData invocation that obtains a
\* drivers result for session key k writes it under drivers_<k> and under
\* drivers_latest (the store accepting both), and never writes one of the
\* two documents without issuing the write of the other.
C28_DriversAlias ==
    lastRun.job \in {"refreshLiveData", "refreshBaseData"} =>
        \A k \in SessionKeys :
            /\ (/\ DriversObtained(k)
                /\ LiveKey("drivers", k) \notin lastRun.failed
                /\ DriversLatestKey \notin lastRun.failed)
                  => /\ Wrote(LiveKey("drivers", k)) /\ Wrote(DriversLatestKey)
                     /\ store[LiveKey("drivers", k)] = Doc(LivePayload, lastRun.at)
                     /\ store[DriversLatestKey] = Doc(LivePayload, lastRun.at)
            /\ Wrote(LiveKey("drivers", k)) => Issued(DriversLatestKey)
            /\ Wrote(DriversLatestKey) => Issued(LiveKey("drivers", k))

\* refreshBaseData replaced both drivers documents of a filled store
W28_BothDriversKeysByBaseData ==
    /\ lastRun.job = "refreshBaseData"
    /\ lastRun.before = SeededStore
    /\ DriversObtained(1)
    /\ lastRun.written = <<LatestSessionKey, LiveKey("drivers", 1), DriversLatestKey>>
    /\ store[LiveKey("drivers", 1)] = Doc(LivePayload, lastRun.at)
    /\ store[DriversLatestKey] = Doc(LivePayload, lastRun.at)

\* C29: an OPTIONS preflight to any endpoint is answered 204 with the CORS
\* headers before the rate limit is looked at: the table of hits is left as
\* it was, the answer is never 429 and no store read is made; a 429 answer
\* carries the CORS headers too.
C29_PreflightBeforeLimit ==
    [][requests' = requests + 1 =>
          /\ IsPreflight(http'.req) =>
                /\ http'.status = 204
                /\ http'.body = EmptyText
                /\ http'.headers = CorsHeaders
                /\ ipHits' = ipHits
                /\ http'.reads = 0 /\ http'.read = "none"
          /\ http'.status = 429 => http'.headers = CorsHeaders]_vars

\* a preflight of an address that has used up its window was answered 204
W29_PreflightInFullWindow ==
    /\ IsPreflight(http.req)
    /\ http.status = 204
    /\ http.headers = CorsHeaders
    /\ ipHits[ClientIp(http.req)].count = IP_RATE_LIMIT.maxRequests
    /\ requests = 1

\* the worker's step from the while test through _refill()
RefillStep == worker.pc = "loop" /\ worker'.pc = "refilled"

\* C30: _refill treats each bucket on its own: with less than one full
\* window elapsed since the bucket's anchor its tokens and anchor are
\* unchanged; otherwise its tokens become
\* min(capacity, tokens + floor(elapsedWindows) * capacity), which is the
\* capacity, and its anchor becomes the current time.
C30_RefillPerBucket ==
    [][RefillStep =>
          /\ IF now - limiter.lastSecondRefill < SECOND_MS
             THEN /\ limiter'.secondTokens = limiter.secondTokens
                  /\ limiter'.lastSecondRefill = limiter.lastSecondRefill
             ELSE /\ limiter'.secondTokens =
                        Min(limiter.perSecond,
                            limiter.secondTokens
                              + ((now - limiter.lastSecondRefill) \div SECOND_MS)
                                  * limiter.perSecond)
                  /\ limiter'.secondTokens = limiter.perSecond
                  /\ limiter'.lastSecondRefill = now
          /\ IF now - limiter.lastMinuteRefill < MINUTE_MS
             THEN /\ limiter'.minuteTokens = limiter.minuteTokens
                  /\ limiter'.lastMinuteRefill = limiter.lastMinuteRefill
             ELSE /\ limiter'.minuteTokens =
                        Min(limiter.perMinute,
                            limiter.minuteTokens
                              + ((now - limiter.lastMinuteRefill) \div MINUTE_MS)
                                  * limiter.perMinute)
                  /\ limiter'.minuteTokens = limiter.perMinute
                  /\ limiter'.lastMinuteRefill = now]_vars

\* _refill() has just refilled the second bucket and left a partly used
\* minute bucket, whose window is still open, as it was
W30_SecondRefilledMinuteKept ==
    /\ worker.pc = "refilled"
    /\ limiter.lastSecondRefill = now
    /\ limiter.secondTokens = limiter.perSecond
    /\ now - limiter.lastMinuteRefill < MINUTE_MS
    /\ now - limiter.lastMinuteRefill >= SECOND_MS
    /\ limiter.minuteTokens < limiter.perMinute

\* C31: pendingRefreshes holds a key exactly while a background fetch for it
\* is outstanding; the entry goes when the fetch completes, whether it
\* succeeded, returned non-2xx or threw, so a later get on a key that is
\* still stale starts a new background refresh.
C31_PendingWhileOutstanding ==
    /\ [](\A k \in ClientKeys :
              k \in client.pending <=> client.bgSent[k] + client.bgBody[k] = 1)
    /\ [][\A k \in ClientKeys :
              /\ (BgSucceeded(k) \/ BgFailed(k)) => k \notin client'.pending
              /\ (/\ lastGet'.n = lastGet.n + 1
                  /\ lastGet'.key = k
                  /\ lastGet'.outcome = "stale"
                  /\ client.bgSent[k] + client.bgBody[k] = 0)
                    => /\ client'.issuedBg[k] = client.issuedBg[k] + 1
                       /\ k \in client'.pending]_vars

\* a refresh of k failed, the entry is still the old one, and the next get
\* has put a second refresh of k on the network
W31_RefreshedAgainAfterFailure ==
    \E k \in ClientKeys :
        /\ client.issuedBg[k] = 2
        /\ client.updated[k] = 0
        /\ client.bgSent[k] = 1
        /\ k \in client.pending
        /\ lastGet.key = k /\ lastGet.outcome = "stale"

\* the requests of key that are queued or with the worker
Unsettled(a, key) ==
    {a.requestQueue[i].id : i \in {j \in DOMAIN a.requestQueue :
                                       a.requestQueue[j].key = key}}
    \cup (IF a.pc # "idle" /\ a.cur.key = key THEN {a.cur.id} ELSE {})

\* C32: at most one request per cache key is queued or in flight, and a
\* fetchAPI call for a non-fresh key that has an unsettled request returns
\* that request's promise and enqueues nothing, also while the request waits
\* to be retried after a 429.
C32_OneRequestPerKey ==
    /\ [](\A k \in ApiKeys : Cardinality(Unsettled(api, k)) <= 1)
    /\ [][api'.lastCall.n = api.lastCall.n + 1 =>
            LET k == api'.lastCall.key
            IN (api'.lastCall.outcome # "fresh" /\ Unsettled(api, k) # {}) =>
                  /\ api'.lastCall.promise \in Unsettled(api, k)
                  /\ Len(api'.promises) = Len(api.promises)]_vars

\* C39: every promise fetchAPI hands out eventually settles, whatever the
\* upstream answers, also when it answers the same request with 429 again
\* and again; and a request queued behind one that is stuck on 429 is
\* eventually sent.
C39_EveryPromiseSettles ==
    \A id \in 1..MaxCalls :
        /\ (Len(api.promises) >= id)
              ~> (Len(api.promises) >= id /\ api.promises[id] # "pending")
        /\ (\E i \in DOMAIN api.requestQueue : api.requestQueue[i].id = id)
              ~> (api.cur.id = id /\ api.pc = "fetching")

\* the first-load requests of key that are on the network or being parsed
FirstLoads(c, key) == c.syncSent[key] + c.syncBody[key]

\* C33: concurrent fetchBackend calls for a key that is absent from both
\* cache tiers share one network request: while a first-load request of the
\* key is outstanding no further one is issued, so N concurrent calls cause
\* exactly one backend request.
C33_FirstLoadCoalesced ==
    [][\A k \in ClientKeys :
          (/\ lastGet'.n = lastGet.n + 1
           /\ lastGet'.key = k
           /\ lastGet'.outcome = "miss"
           /\ FirstLoads(client, k) > 0)
             => /\ client'.issuedSync[k] = client.issuedSync[k]
                /\ FirstLoads(client', k) = 1]_vars

\* C34: when refreshLiveData and refreshBaseData invocations for the same
\* latest session key k have run in any interleaving, every fetch and every
\* write succeeded and all invocations have finished, drivers_latest holds
\* what drivers_<k> holds.
C34_AliasConsistent ==
    (/\ \A j \in ConcurrentJobs :
            inv[j].pc = "idle" /\ inv[j].started > 0 /\ inv[j].clean
     /\ store[DriversLatestKey].exists)
      => \A k \in SessionKeys :
            store[DriversLatestKey].data = store[LiveKey("drivers", k)].data

\* requests for the documents of a whole year's sessions, of a session
\* result and of one driver's laps
UnwrittenRequests ==
    {[endpoint |-> "getSessionsByYear", method |-> "GET", xff |-> <<>>,
      ip |-> "b", query |-> [NoQuery EXCEPT !.year = y]] :
        y \in {QAbsent, QText("2026")}}
    \cup {[endpoint |-> "getSessionResult", method |-> "GET", xff |-> <<>>,
           ip |-> "b", query |-> [NoQuery EXCEPT !.session_key = QText("1")]],
          [endpoint |-> "getLaps", method |-> "GET", xff |-> <<>>, ip |-> "b",
           query |-> [NoQuery EXCEPT !.session_key = QText("1"),
                                     !.driver_number = QText("44")]]}
UnwrittenKeys ==
    {DocIdFn(req.endpoint, req.query, now).id : req \in UnwrittenRequests}

\* C35: no scheduler job writes sessions_year_<year>, result_<sessionKey>
\* or laps_<sessionKey>_<driverNumber> for a driver number other than all,
\* so whatever the jobs have written, getSessionsByYear, getSessionResult
\* and getLaps with an explicit driver_number answer [].
C35_UnwrittenKeysAnswerEmpty ==
    /\ \A i \in DOMAIN lastRun.written :
          lastRun.written[i] \in Keys \ UnwrittenKeys
    /\ \A req \in UnwrittenRequests :
          LET a == HandlerBody(req, store, now, FALSE)
          IN a.status = 200 /\ a.body = Arr(<<>>) /\ a.read = "absent"

\* three jobs have filled the store, the laps of session 1 are served, and
\* the laps of driver 44 are still answered with []
W35_LapsOfOneDriverEmpty ==
    /\ runs = 3
    /\ lastRun.job = "refreshLiveData"
    /\ store[SessionsKey(1)].exists
    /\ store[LiveKey("laps", 1)].exists
    /\ \E req \in UnwrittenRequests :
          /\ req.endpoint = "getLaps"
          /\ HandlerBody(req, store, now, FALSE).body = Arr(<<>>)
          /\ HandlerBody([req EXCEPT !.query.driver_number = QAbsent],
                         store, now, FALSE).body = LivePayload

\* C36: the read layer's [] for a key that is not cached yet is stored by
\* the client as a normal entry stamped with the current time, and every
\* get of the key within the TTL returns [] without a network request, also
\* after the scheduler has written the key.
C36_EmptyResponseCached ==
    [][\A k \in WidgetKeys :
          /\ (/\ client'.syncBody[k] < client.syncBody[k]
              /\ ~store[k].exists)
                => /\ client'.settled.inner = Fulfilled(EmptyList)
                   /\ client'.cache[k] = Cached(EmptyList, now)
                   /\ client'.ls[k] = Item(Cached(EmptyList, now))
          /\ (/\ lastGet'.n = lastGet.n + 1
              /\ lastGet'.key = k
              /\ HeldEntry(k).has
              /\ HeldEntry(k).data = EmptyList
              /\ now - HeldEntry(k).timestamp < lastGet'.cacheDuration)
                => /\ lastGet'.returned
                   /\ lastGet'.data = EmptyList
                   /\ client'.issuedBg = client.issuedBg
                   /\ client'.issuedSync = client.issuedSync
                   /\ \A j \in ClientKeys :
                         Outstanding(client', j) = Outstanding(client, j)]_vars

\* the scheduler has written drivers_latest, and a get within the TTL still
\* returned the [] of the first load without asking again
W36_EmptyServedAfterWrite ==
    /\ lastGet.key = DriversLatestKey
    /\ lastGet.outcome = "fresh"
    /\ lastGet.data = EmptyList
    /\ lastGet.at = 30000
    /\ store[DriversLatestKey].exists
    /\ store[DriversLatestKey].data = LivePayload
    /\ client.issuedSync[DriversLatestKey] = 1
    /\ client.issuedBg[DriversLatestKey] = 0

\* C37: for every key, when both tiers hold an entry the persistent one is
\* not younger than the in-memory one; cacheGet returns the in-memory entry
\* whenever there is one, and reads localStorage, hydrating the entry into
\* memory, only when there is none.
C37_MemoryTierAuthoritative ==
    /\ [](\A k \in ClientKeys :
              (client.cache[k].has /\ client.ls[k].kind = "entry")
                => client.ls[k].timestamp <= client.cache[k].timestamp)
    /\ [][\A k \in ClientKeys :
              (lastGet'.n = lastGet.n + 1 /\ lastGet'.key = k) =>
                 /\ client.cache[k].has =>
                       /\ lastGet'.returned
                       /\ lastGet'.data = client.cache[k].data
                       /\ (lastGet'.outcome = "fresh") <=>
                             (now - client.cache[k].timestamp
                                < lastGet'.cacheDuration)
                       /\ client'.cache = client.cache
                       /\ client'.ls = client.ls
                 /\ (~client.cache[k].has /\ client.ls[k].kind = "entry") =>
                       /\ client'.cache[k] =
                             Cached(client.ls[k].data, client.ls[k].timestamp)
                       /\ lastGet'.data = client.ls[k].data
                       /\ client'.ls = client.ls]_vars

\* localStorage kept the old entry when the refreshed one did not fit, and
\* the next get was answered from memory with the new data
W37_MemoryNewerThanStorage ==
    \E k \in ClientKeys :
        /\ lastGet.key = k
        /\ lastGet.outcome = "fresh"
        /\ lastGet.data = "new"
        /\ client.cache[k].has
        /\ client.ls[k].kind = "entry"
        /\ client.ls[k].data = "old"
        /\ client.ls[k].timestamp < client.cache[k].timestamp
        /\ lastGet.at >= client.cache[k].timestamp

\* the client's requests on the network or being parsed, over the keys ks
RECURSIVE OutstandingIn(_, _)
OutstandingIn(c, ks) ==
    IF ks = {} THEN 0
    ELSE LET k == CHOOSE x \in ks : TRUE
         IN Outstanding(c, k) + OutstandingIn(c, ks \ {k})

\* C38: activeRefreshCount equals the number of outstanding client requests
\* (first-load fetches and background refreshes) and is never negative;
\* f1x:bg-refresh-start and f1x:bg-refresh-end alternate, beginning with
\* start, and once all requests have completed the last event is end.
C38_ActiveCountAndEvents ==
    /\ client.active = OutstandingIn(client, ClientKeys)
    /\ client.active >= 0
    /\ \A i \in DOMAIN client.events :
          client.events[i] = IF i % 2 = 1 THEN "f1x:bg-refresh-start"
                             ELSE "f1x:bg-refresh-end"
    /\ (client.active = 0) <=> (Len(client.events) % 2 = 0)

\* a background refresh and a first-load fetch overlapped, both have
\* completed, and one start and one end were dispatched
W38_OverlappingRequestsOnePair ==
    /\ client.active = 0
    /\ client.events = <<"f1x:bg-refresh-start", "f1x:bg-refresh-end">>
    /\ \E k, j \in ClientKeys :
          /\ k # j
          /\ client.issuedBg[k] = 1 /\ client.issuedSync[j] = 1
          /\ client.updated[k] = 1
          /\ client.cache[j].has

\* C40: at most one _processQueue loop is active at any time, and whenever
\* control is back in the event loop (the worker is neither at its while
\* test nor between _refill() and the grant) a non-empty queue implies
\* processing = true with the one loop asleep on its timer, so a queued
\* acquire() always has a worker that will serve it.
C40_SingleWorker ==
    /\ worker.loops <= 1
    /\ worker.loops = (IF worker.pc = "idle" THEN 0 ELSE 1)
    /\ limiter.processing <=> (worker.loops = 1)
    /\ (~Running /\ Len(limiter.queue) > 0) =>
          /\ limiter.processing
          /\ worker.pc = "sleeping"

\* an acquire() arrived while the worker was asleep with an earlier one
\* still queued, and no second loop was started
W40_EnqueuedWhileAsleep ==
    /\ worker.pc = "sleeping"
    /\ worker.loops = 1
    /\ Len(limiter.queue) >= 2
    /\ nextTicket >= 2
    /\ enqueueLog[nextTicket] > worker.wakeAt - WaitMs(limiter)
    /\ enqueueLog[nextTicket] > enqueueLog[nextTicket - 1]

====
